---- MODULE Spec2Model ----
(***************************************************************************)
(* A model of perpscope: the multi-source account fetch of bot.py          *)
(* (get_account_info, scrape_hyperliquid_data), the position extraction of *)
(* utils.extract_position_data and of the view_positions handler, the     *)
(* market data fetch (get_market_data), the alert registry of              *)
(* price_alerts.py (AlertManager, handle_price_input, the delete button)   *)
(* and the wallet tracking handlers of bot.py.                             *)
(*                                                                         *)
(* Python values are tagged records.  A number is kept in tenths (Num(125) *)
(* is 12.5), a string is its sequence of characters, a dict is its         *)
(* sequence of <<key, value>> entries in insertion order.                  *)
(***************************************************************************)
EXTENDS Integers, Sequences, FiniteSets, TLC

VARIABLES
    pc,         \* get_account_info: the statement about to run
    tried,      \* the sources attempted so far, in order
    got,        \* what each attempted source yielded (None: nothing usable)
    outcome,    \* "running", "returned" or "raised"
    ret,        \* the value returned to the caller
    ep,         \* scrape: index in API_ENDPOINTS of the next endpoint
    all_data,   \* scrape: <<payload_type, body>> of every stored response
    errlog,     \* the except clauses that ran (each logs an error)
    scraped,    \* scrape: what scrape_hyperliquid_data returned
    raw,        \* extraction: the raw position record
    markets_data, \* extraction: the market prices the handlers look up
    u_out,      \* what utils.extract_position_data made of it
    i_out,      \* what the view_positions handler made of it
    i_loc,      \* the locals of the view_positions handler before rendering
    labels,     \* the direction each rendering path printed
    m_pc,       \* get_market_data: "call", "awaiting" or "done"
    m_resp,     \* the response of the allMids endpoint, once requested
    m_posts,    \* the number of requests get_market_data issued
    m_ret,      \* the value get_market_data returned
    alerts,     \* AlertManager.alerts: <<user_id, list of alerts>> in key order
    sweep,      \* the locals of the running check_alerts
    serial,     \* the number of alerts added so far
    snapshot,   \* the alerts in the registry when check_alerts was called
    evaluated,  \* the alerts check_alerts has evaluated
    a_last,     \* the last call on the registry: its arguments, the registry before it, its result
    tracked_wallets,          \* user_data['tracked_wallets'] of one user
    awaiting_wallet_address,  \* user_data['awaiting_wallet_address']
    w_reply,    \* what the last wallet handler answered
    w_last      \* the last wallet handler that ran, its input and the list before it

fetchVars == <<pc, tried, got, outcome, ret, ep, all_data, errlog, scraped>>

extractVars == <<raw, markets_data, u_out, i_out, i_loc, labels>>

marketVars == <<m_pc, m_resp, m_posts, m_ret>>

alertVars == <<alerts, sweep, serial, snapshot, evaluated, a_last>>

walletVars == <<tracked_wallets, awaiting_wallet_address, w_reply, w_last>>

\* what each part of the program leaves alone
notFetchVars == <<extractVars, marketVars, alertVars, walletVars>>
notExtractVars == <<fetchVars, marketVars, alertVars, walletVars>>
notMarketVars == <<fetchVars, extractVars, alertVars, walletVars>>
notRegistryVars == <<fetchVars, extractVars, marketVars, walletVars, sweep, snapshot, evaluated>>
notAlertVars == <<fetchVars, extractVars, marketVars, walletVars, a_last>>
notWalletVars == <<fetchVars, extractVars, marketVars, alertVars>>

vars == <<fetchVars, notFetchVars>>

----------------------------------------------------------------------------
(* Python values *)

None == [t |-> "none"]
Num(n) == [t |-> "num", v |-> n]
Str(s) == [t |-> "str", s |-> s]
Dict(kv) == [t |-> "dict", kv |-> kv]
List(items) == [t |-> "list", items |-> items]

IsDict(x) == x.t = "dict"
IsList(x) == x.t = "list"

\* bool(x)
Truthy(x) ==
    CASE x.t = "none" -> FALSE
      [] x.t = "num"  -> x.v # 0
      [] x.t = "str"  -> Len(x.s) > 0
      [] x.t = "dict" -> Len(x.kv) > 0
      [] x.t = "list" -> Len(x.items) > 0

\* k in d, for a dict d
HasKey(d, k) == \E i \in 1..Len(d.kv) : d.kv[i][1] = k

\* d.get(k, dflt), for a dict d
Get(d, k, dflt) ==
    IF HasKey(d, k)
    THEN d.kv[CHOOSE i \in 1..Len(d.kv) : d.kv[i][1] = k][2]
    ELSE dflt

\* d[k] = v, for a dict d: an existing key keeps its place, a new key goes last
SetKey(d, k, v) ==
    IF HasKey(d, k)
    THEN Dict([i \in 1..Len(d.kv) |->
                  IF d.kv[i][1] = k THEN <<k, v>> ELSE d.kv[i]])
    ELSE Dict(Append(d.kv, <<k, v>>))

(* Strings: str.isdigit, str.replace(c, '', 1) and float(str), on the       *)
(* characters the model's inputs use: digits, ".", "-" and letters.         *)
Digits == <<"0", "1", "2", "3", "4", "5", "6", "7", "8", "9">>

IsDigitChar(c) == \E i \in 1..Len(Digits) : Digits[i] = c

DigitVal(c) == (CHOOSE i \in 1..Len(Digits) : Digits[i] = c) - 1

\* s.isdigit()
IsDigit(s) == Len(s) > 0 /\ \A i \in 1..Len(s) : IsDigitChar(s[i])

\* s.replace(c, '', 1)
ReplaceFirst(s, c) ==
    IF \E i \in 1..Len(s) : s[i] = c
    THEN LET p == CHOOSE i \in 1..Len(s) :
                      s[i] = c /\ \A j \in 1..(i - 1) : s[j] # c
         IN  SubSeq(s, 1, p - 1) \o SubSeq(s, p + 1, Len(s))
    ELSE s

RECURSIVE DigitsValue(_)
DigitsValue(s) ==
    IF Len(s) = 0 THEN 0
    ELSE DigitsValue(SubSeq(s, 1, Len(s) - 1)) * 10 + DigitVal(s[Len(s)])

\* the unsigned part of a float literal: digits with at most one "."
UnsignedParses(s) ==
    /\ IsDigit(ReplaceFirst(s, "."))

\* in tenths: the digits after the first one behind the point are dropped
UnsignedValue(s) ==
    IF \E i \in 1..Len(s) : s[i] = "."
    THEN LET p == CHOOSE i \in 1..Len(s) : s[i] = "."
             frac == SubSeq(s, p + 1, Len(s))
         IN  DigitsValue(SubSeq(s, 1, p - 1)) * 10
               + (IF Len(frac) = 0 THEN 0 ELSE DigitVal(frac[1]))
    ELSE DigitsValue(s) * 10

HasSign(s) == Len(s) > 0 /\ s[1] \in {"-", "+"}

\* whether float(s) succeeds for a string s
StrParses(s) ==
    UnsignedParses(IF HasSign(s) THEN Tail(s) ELSE s)

StrValue(s) ==
    IF HasSign(s)
    THEN (IF s[1] = "-" THEN -1 ELSE 1) * UnsignedValue(Tail(s))
    ELSE UnsignedValue(s)

(* float(x): exc is "" when it succeeds and the exception's name when it    *)
(* raises                                                                  *)
PyFloat(x) ==
    CASE x.t = "num" -> [exc |-> "", v |-> x.v]
      [] x.t = "str" -> IF StrParses(x.s)
                        THEN [exc |-> "", v |-> StrValue(x.s)]
                        ELSE [exc |-> "ValueError", v |-> 0]
      [] OTHER       -> [exc |-> "TypeError", v |-> 0]

\* coin symbols and other strings of the inputs
BTC == Str(<<"B", "T", "C">>)
ETH == Str(<<"E", "T", "H">>)
Unknown == Str(<<"U", "n", "k", "n", "o", "w", "n">>)
EmptyStr == Str(<<>>)
NotANumber == Str(<<"n", "/", "a">>)

----------------------------------------------------------------------------
(* config.py *)

API_ENDPOINTS == <<
    [key |-> "clearinghouse",  payload_type |-> "clearinghouseState"],
    [key |-> "userState",      payload_type |-> "userState"],
    [key |-> "positions",      payload_type |-> "positions"],
    [key |-> "accountState",   payload_type |-> "accountState"],
    [key |-> "marginDetails",  payload_type |-> "marginDetails"],
    [key |-> "fundingHistory", payload_type |-> "fundingHistory"],
    [key |-> "allMids",        payload_type |-> "allMids"],
    [key |-> "v2_positions",   payload_type |-> ""] >>

\* endpoint_key.startswith("v2_"), on the keys of API_ENDPOINTS
StartsWithV2(key) == key = "v2_positions"

SampleMargin == Dict(<<
    <<"accountValue",    Str(<<"3","2","7","9","1","6",".","9","5","5","5","5">>)>>,
    <<"totalNtlPos",     Str(<<"8","9","2","6","5","5",".","6","7","3","3","6">>)>>,
    <<"totalRawUsd",     Str(<<"4","8","5","8","1","6",".","6","2","8","9","1">>)>>,
    <<"totalMarginUsed", Str(<<"2","4","8","5","6","8",".","1","5","7","7","8","6">>)>> >>)

Cross == Str(<<"c", "r", "o", "s", "s">>)
OneWay == Str(<<"o", "n", "e", "W", "a", "y">>)

SAMPLE_ACCOUNT_DATA == Dict(<<
    <<"marginSummary", SampleMargin>>,
    <<"crossMarginSummary", SampleMargin>>,
    <<"assetPositions", List(<<
        Dict(<<
            <<"type", OneWay>>,
            <<"position", Dict(<<
                <<"coin", Str(<<"H","Y","P","E">>)>>,
                <<"szi", Str(<<"-","3","3","5","4","6",".","9","2">>)>>,
                <<"leverage", Dict(<< <<"type", Cross>>, <<"value", Num(30)>> >>)>>,
                <<"entryPx", Str(<<"1","6",".","2","3","2","3">>)>>,
                <<"positionValue", Str(<<"5","2","5","2","7","7",".","6","7","3","3","6">>)>>,
                <<"unrealizedPnl", Str(<<"1","9","2","6","8",".","6","2","1","6">>)>>,
                <<"liquidationPx", Str(<<"2","0",".","8","6","0","9","3","5","6","4","0","8">>)>> >>)>> >>),
        Dict(<<
            <<"type", OneWay>>,
            <<"position", Dict(<<
                <<"coin", Str(<<"B","E","R","A">>)>>,
                <<"szi", Str(<<"5","5","0","0","0",".","0">>)>>,
                <<"leverage", Dict(<< <<"type", Cross>>, <<"value", Num(50)>> >>)>>,
                <<"entryPx", Str(<<"8",".","4","1","6","1","3">>)>>,
                <<"positionValue", Str(<<"3","6","7","3","7","8",".","0">>)>>,
                <<"unrealizedPnl", Str(<<"-","9","5","5","0","9",".","5","0","4","8","3">>)>>,
                <<"liquidationPx", Str(<<"2",".","5","6","5","8","0","4","5","1","2">>)>> >>)>> >>) >>)>> >>)

----------------------------------------------------------------------------
(* The upstream.  A response is a network error, a non-200 status, a 200   *)
(* whose body is not JSON, or a 200 with a JSON body.                      *)

MaxRecords == 2     \* records the upstream returns over one scrape / in one body

Resp(kind, body) == [kind |-> kind, body |-> body]

Failures == {Resp("neterr", None), Resp("non200", None), Resp("badjson", None)}

SeqsUpTo(S, n) == UNION {[1..k -> S] : k \in 0..n}

\* one entry of an account-state assetPositions list
AcctRecords == {
    Dict(<< <<"coin", BTC>>, <<"unrealizedPnl", Num(0)>> >>),
    Dict(<< <<"coin", BTC>> >>),
    Dict(<< <<"coin", BTC>>, <<"unrealizedPnl", Num(70)>> >>),
    Num(10) }

\* one entry of the flat positions list
PosRecords == {
    Dict(<< <<"coin", BTC>>, <<"unrealizedPnl", Num(420)>> >>),
    Dict(<< <<"coin", BTC>>, <<"unrealizedPnl", NotANumber>> >>),
    Dict(<< <<"coin", ETH>>, <<"unrealizedPnl", Num(90)>> >>),
    Num(10) }

\* one entry of the V2 positions list
V2Records == {
    Dict(<< <<"coin", BTC>>, <<"szi", Num(10)>>, <<"entryPx", Num(1000)>>,
            <<"leverage", Num(30)>>, <<"unrealizedPnl", Num(70)>> >>),
    Dict(<<>>),
    Num(10) }

AssetPositions(l) == Dict(<< <<"assetPositions", List(l)>> >>)

AcctBodies(n) ==
    {AssetPositions(l) : l \in SeqsUpTo(AcctRecords, n)}
        \cup {Dict(<< <<"marginSummary", SampleMargin>> >>), List(<<>>)}

PosBodies(n) ==
    {List(l) : l \in SeqsUpTo(PosRecords, n)} \cup {Dict(<<>>)}

V2Bodies(n) ==
    {List(l) : l \in SeqsUpTo(V2Records, n)} \cup {Dict(<<>>), None}

OtherBodies == {Dict(<< <<"BTC", Num(1000)>> >>)}

\* the bodies the endpoint of a payload type may answer with
BodiesOf(payload_type, n) ==
    CASE payload_type \in {"clearinghouseState", "userState", "accountState"}
             -> AcctBodies(n)
      [] payload_type = "positions" -> PosBodies(n)
      [] OTHER -> OtherBodies

\* the records a body holds
RecordCount(body) ==
    IF IsList(body) THEN Len(body.items)
    ELSE IF IsDict(body) /\ HasKey(body, "assetPositions")
         THEN Len(Get(body, "assetPositions", None).items)
         ELSE 0

RECURSIVE RecordsIn(_)
RecordsIn(data) ==
    IF Len(data) = 0 THEN 0
    ELSE RecordCount(data[Len(data)][2]) + RecordsIn(SubSeq(data, 1, Len(data) - 1))

----------------------------------------------------------------------------
(* What a block of statements does: it falls through to the next           *)
(* statement ("fall"), returns val from the function ("return") or raises  *)
(* ("raise").                                                              *)

Fall == [o |-> "fall", val |-> None]
Return(v) == [o |-> "return", val |-> v]
Raise == [o |-> "raise", val |-> None]

\* try: <block> / except Exception as e: logger.error(...)
TryExcept(r) == IF r.o = "raise" THEN Fall ELSE r

(* utils.fetch_data: None on a network error, a non-200 status or a body   *)
(* that is not JSON, the parsed body otherwise; it never raises            *)
fetch_data(resp) == IF resp.kind = "ok" THEN resp.body ELSE None

(* bot.py 92-101: the asset position built from one V2 record; pos.get      *)
(* raises when the record is no mapping                                    *)
V2AssetPosition(pos) ==
    Dict(<<
        <<"coin", Get(pos, "coin", Unknown)>>,
        <<"position", Dict(<<
            <<"coin", Get(pos, "coin", Unknown)>>,
            <<"szi", Get(pos, "szi", Num(0))>>,
            <<"entryPx", Get(pos, "entryPx", Num(0))>>,
            <<"leverage", Get(pos, "leverage", Num(10))>> >>)>>,
        <<"unrealizedPnl", Get(pos, "unrealizedPnl", Num(0))>> >>)

\* bot.py 80-104: the body of the first try block
V2Block(resp) ==
    CASE resp.kind = "neterr"  -> Raise
      [] resp.kind = "non200"  -> Fall
      [] resp.kind = "badjson" -> Raise
      [] OTHER ->
           LET data == resp.body IN
           IF Truthy(data) /\ IsList(data)
           THEN IF \E i \in 1..Len(data.items) : ~IsDict(data.items[i])
                THEN Raise
                ELSE Return(AssetPositions(
                         [i \in 1..Len(data.items) |-> V2AssetPosition(data.items[i])]))
           ELSE Fall

\* bot.py 110-118: the body of the second try block
ClearinghouseBlock(resp) ==
    LET data == fetch_data(resp) IN
    IF Truthy(data) /\ IsDict(data) /\ HasKey(data, "assetPositions")
    THEN Return(data)
    ELSE Fall

\* the first block without its except clause
V2AttemptUncaught(resp) == V2Block(resp)

\* bot.py 79-106
V2Attempt(resp) == TryExcept(V2Block(resp))

\* bot.py 109-120
ClearinghouseAttempt(resp) == TryExcept(ClearinghouseBlock(resp))

----------------------------------------------------------------------------
(* scrape_hyperliquid_data *)

(* bot.py 177-187: the body of the try block of one endpoint of the loop;   *)
(* "store" is all_data[payload_type] = data                                *)
EndpointBlock(resp) ==
    CASE resp.kind = "neterr"  -> Raise
      [] resp.kind = "non200"  -> Fall
      [] resp.kind = "badjson" -> Raise
      [] OTHER -> [o |-> "store", val |-> resp.body]

\* bot.py 176-189
EndpointAttempt(resp) == TryExcept(EndpointBlock(resp))

(* bot.py 192-210.  The state of the processing loop: the PnL index, the    *)
(* combined records, and whether a statement raised.                       *)
ProcInit == [exc |-> FALSE, pnl_by_coin |-> Dict(<<>>), combined |-> <<>>]

\* bot.py 198-201: one record of the flat positions list
IndexPosition(st, position) ==
    IF st.exc THEN st
    ELSE IF position.t \in {"num", "none"}
         THEN [st EXCEPT !.exc = TRUE]          \* "coin" in position: TypeError
    ELSE IF ~IsDict(position) THEN st
    ELSE IF HasKey(position, "coin") /\ HasKey(position, "unrealizedPnl")
         THEN LET f == PyFloat(Get(position, "unrealizedPnl", Num(0))) IN
              IF f.exc # ""
              THEN [st EXCEPT !.exc = TRUE]
              ELSE [st EXCEPT !.pnl_by_coin =
                                  SetKey(@, Get(position, "coin", None), Num(f.v))]
    ELSE st

\* every record is taken to have a gap
PnlGapAlways(position) == TRUE

\* bot.py 207: the record's PnL is to be overwritten from the index
PnlGap(position) ==
    \/ ~HasKey(position, "unrealizedPnl")
    \/ LET f == PyFloat(Get(position, "unrealizedPnl", Num(0))) IN
       f.exc = "" /\ f.v = 0

\* a record whose coin is already among the combined records is dropped
MergeRecordDedupe(st, position) ==
    IF st.exc THEN st
    ELSE IF ~IsDict(position) THEN [st EXCEPT !.exc = TRUE]
    ELSE IF \E k \in 1..Len(st.combined) :
                Get(st.combined[k], "coin", Unknown) = Get(position, "coin", Unknown)
         THEN st
         ELSE [st EXCEPT !.combined = Append(@, position)]

\* bot.py 205-210: one record of an account-state assetPositions list
MergeRecord(st, position) ==
    IF st.exc THEN st
    ELSE IF ~IsDict(position)
         THEN [st EXCEPT !.exc = TRUE]          \* position.get: AttributeError
    ELSE LET coin == Get(position, "coin", Unknown) IN
         IF HasKey(st.pnl_by_coin, coin)
         THEN IF HasKey(position, "unrealizedPnl")
                   /\ PyFloat(Get(position, "unrealizedPnl", Num(0))).exc # ""
              THEN [st EXCEPT !.exc = TRUE]
              ELSE IF PnlGap(position)
                   THEN [st EXCEPT !.combined =
                             Append(@, SetKey(position, "unrealizedPnl",
                                              Get(st.pnl_by_coin, coin, None)))]
                   ELSE [st EXCEPT !.combined = Append(@, position)]
         ELSE [st EXCEPT !.combined = Append(@, position)]

RECURSIVE FoldRecords(_, _, _, _)
\* a for loop over the records from index i on; flat: the positions branch
FoldRecords(st, records, i, flat) ==
    IF i > Len(records) THEN st
    ELSE FoldRecords(IF flat THEN IndexPosition(st, records[i])
                             ELSE MergeRecord(st, records[i]),
                     records, i + 1, flat)

AccountStateTags == {"userState", "clearinghouseState", "accountState"}

\* bot.py 197-210: one source of all_data
ProcessSource(st, source_type, data) ==
    LET st1 == IF source_type = "positions" /\ IsList(data)
               THEN FoldRecords(st, data.items, 1, TRUE)
               ELSE st
    IN  IF source_type \in AccountStateTags /\ IsDict(data)
             /\ HasKey(data, "assetPositions")
        THEN FoldRecords(st1, Get(data, "assetPositions", None).items, 1, FALSE)
        ELSE st1

RECURSIVE ProcessSources(_, _, _)
\* bot.py 196: for source_type, data in all_data.items()
ProcessSources(st, data, i) ==
    IF i > Len(data) THEN st
    ELSE ProcessSources(ProcessSource(st, data[i][1], data[i][2]), data, i + 1)

\* bot.py 192-216: the statements after the endpoint loop
ProcessBlock(data) ==
    LET st == ProcessSources(ProcInit, data, 1) IN
    IF st.exc THEN Raise
    ELSE IF Len(st.combined) > 0
         THEN Return(AssetPositions(st.combined))
         ELSE Return(None)

\* bot.py 166-220: what scrape_hyperliquid_data returns once the loop is over
ScrapeResult(data) ==
    LET r == ProcessBlock(data) IN
    IF r.o = "raise" THEN None ELSE r.val

\* bot.py 123-126: the body of the third try block, given the stored responses
ScrapeBlock(data) ==
    LET result == ScrapeResult(data) IN
    IF Truthy(result) THEN Return(result) ELSE Fall

\* bot.py 123-128
ScrapeAttempt(data) == TryExcept(ScrapeBlock(data))

----------------------------------------------------------------------------
(* get_account_info *)

\* the clearinghouseState block placed before the V2 block
SourceOrderSwapped == <<"clearinghouse", "v2", "scrape">>

\* bot.py 78, 108, 122: the order of the three try blocks
SourceOrder == <<"v2", "clearinghouse", "scrape">>

\* no sample data after the last block
FallbackNone == None

\* bot.py 130-132
Fallback == SAMPLE_ACCOUNT_DATA

NotTried == [t |-> "untried"]

IndexOf(src) == CHOOSE i \in 1..Len(SourceOrder) : SourceOrder[i] = src

\* the statement after the try block of src
Following(src) ==
    IF IndexOf(src) < Len(SourceOrder) THEN SourceOrder[IndexOf(src) + 1]
    ELSE "sample"

\* nothing extracted
NotRun ==
    [status |-> "notrun", coin |-> None, size |-> 0, entry_price |-> 0,
     leverage |-> 0, unrealized_pnl |-> 0, liquidation_price |-> 0]

ExtractIdle ==
    /\ raw = None /\ markets_data = None
    /\ u_out = NotRun /\ i_out = NotRun
    /\ i_loc = [computed |-> FALSE] /\ labels = [portfolio |-> "", format |-> ""]

\* get_market_data not called
MarketIdle == m_pc = "call" /\ m_resp = None /\ m_posts = 0 /\ m_ret = None

\* price_alerts.py 31-33, 131: the alert manager as constructed, no sweep
IdleSweep ==
    [pc |-> "idle", size |-> 0, pos |-> 0, user |-> 0, alerts |-> <<>>,
     shared |-> FALSE, i |-> 0, triggered |-> <<>>, error |-> ""]

NoRegistryCall == [op |-> "none"]

AlertStart ==
    /\ a_last = NoRegistryCall
    /\ alerts = <<>>
    /\ sweep = IdleSweep
    /\ serial = 0
    /\ snapshot = {}
    /\ evaluated = {}

\* a key that is not in a dict
Absent == [t |-> "absent"]

\* a user_data without wallet keys, no wallet handler run yet
NoWalletAction == [op |-> "none", arg |-> <<>>, before |-> <<>>]

WalletIdle ==
    /\ tracked_wallets = Absent
    /\ awaiting_wallet_address = Absent
    /\ w_reply = ""
    /\ w_last = NoWalletAction

FetchStart ==
    /\ pc = SourceOrder[1]
    /\ tried = <<>>
    /\ got = [s \in {"v2", "clearinghouse", "scrape"} |-> NotTried]
    /\ outcome = "running"
    /\ ret = None
    /\ ep = 0
    /\ all_data = <<>>
    /\ errlog = {}
    /\ scraped = NotTried

InitFetch == FetchStart /\ ExtractIdle /\ MarketIdle /\ AlertStart /\ WalletIdle

(* The end of the try block of src with result r: the function returns     *)
(* r.val, or an exception leaves it, or control reaches the next block;    *)
(* after the last block the sample data is returned.                       *)
Settle(src, r) ==
    /\ got' = [got EXCEPT ![src] = r.val]
    /\ CASE r.o = "return" ->
              outcome' = "returned" /\ ret' = r.val /\ pc' = "done"
         [] r.o = "raise" ->
              outcome' = "raised" /\ ret' = ret /\ pc' = "done"
         [] OTHER ->
              IF Following(src) = "sample"
              THEN outcome' = "returned" /\ ret' = Fallback /\ pc' = "done"
              ELSE outcome' = outcome /\ ret' = ret /\ pc' = Following(src)

\* the except clause of a try block logs when the block raised and was caught
Logged(block, attempt, name) ==
    IF block.o = "raise" /\ attempt.o # "raise" THEN errlog \cup {name} ELSE errlog

\* bot.py 79-106
TryV2 ==
    /\ pc = "v2"
    /\ \E resp \in Failures \cup {Resp("ok", b) : b \in V2Bodies(MaxRecords)} :
        /\ tried' = Append(tried, "v2")
        /\ errlog' = Logged(V2Block(resp), V2Attempt(resp), "v2")
        /\ Settle("v2", V2Attempt(resp))
    /\ UNCHANGED <<ep, all_data, scraped, notFetchVars>>

\* bot.py 109-120
TryClearinghouse ==
    /\ pc = "clearinghouse"
    /\ \E resp \in Failures \cup {Resp("ok", b) : b \in AcctBodies(MaxRecords)} :
        /\ tried' = Append(tried, "clearinghouse")
        /\ errlog' = Logged(ClearinghouseBlock(resp), ClearinghouseAttempt(resp),
                            "clearinghouse")
        /\ Settle("clearinghouse", ClearinghouseAttempt(resp))
    /\ UNCHANGED <<ep, all_data, scraped, notFetchVars>>

RECURSIVE NextEndpoint(_)
\* bot.py 171-174: the next endpoint from index i on that is not a v2 endpoint
NextEndpoint(i) ==
    IF i <= Len(API_ENDPOINTS) /\ StartsWithV2(API_ENDPOINTS[i].key)
    THEN NextEndpoint(i + 1)
    ELSE i

\* bot.py 124, 166-174: the call of scrape_hyperliquid_data
ScrapeCall ==
    /\ pc = "scrape"
    /\ tried' = Append(tried, "scrape")
    /\ ep' = NextEndpoint(1)
    /\ all_data' = <<>>
    /\ pc' = "scrape_loop"
    /\ UNCHANGED <<got, outcome, ret, errlog, scraped, notFetchVars>>

\* bot.py 171-189: the request of one endpoint, up to the next request
ScrapeFetch ==
    /\ pc = "scrape_loop"
    /\ ep <= Len(API_ENDPOINTS)
    /\ LET e == API_ENDPOINTS[ep] IN
       \E resp \in Failures \cup
                   {Resp("ok", b) : b \in BodiesOf(e.payload_type, MaxRecords)} :
        /\ RecordsIn(all_data) + RecordCount(resp.body) <= MaxRecords
        /\ LET r == EndpointAttempt(resp) IN
            /\ all_data' = IF r.o = "store"
                           THEN Append(all_data, <<e.payload_type, r.val>>)
                           ELSE all_data
            /\ errlog' = Logged(EndpointBlock(resp), r, "endpoint")
            /\ ep' = NextEndpoint(ep + 1)
    /\ UNCHANGED <<pc, tried, got, outcome, ret, scraped, notFetchVars>>

\* bot.py 191-220 and 125-132: the loop is over
ScrapeFinish ==
    /\ pc = "scrape_loop"
    /\ ep > Len(API_ENDPOINTS)
    /\ scraped' = ScrapeResult(all_data)
    /\ errlog' = IF ProcessBlock(all_data).o = "raise"
                 THEN errlog \cup {"scraping"} ELSE errlog
    /\ Settle("scrape", ScrapeAttempt(all_data))
    /\ UNCHANGED <<tried, ep, all_data, notFetchVars>>

NextFetch ==
    \/ TryV2
    \/ TryClearinghouse
    \/ ScrapeCall
    \/ ScrapeFetch
    \/ ScrapeFinish

SpecFetch == InitFetch /\ [][NextFetch]_vars

----------------------------------------------------------------------------
(* Properties of get_account_info *)

IsPrefix(s, t) == Len(s) <= Len(t) /\ \A i \in 1..Len(s) : s[i] = t[i]

Finished == pc = "done"

(* C1: the three live sources are attempted in the fixed order V2,          *)
(* clearinghouseState, scrape; a source is attempted only if every source  *)
(* attempted before it yielded nothing usable; and the value returned is   *)
(* the result of the first source that yielded a usable result.            *)
C1_SourceOrder ==
    /\ IsPrefix(tried, <<"v2", "clearinghouse", "scrape">>)
    /\ \A i \in 1..Len(tried) : \A j \in 1..(i - 1) : got[tried[j]] = None
    /\ \A i \in 1..Len(tried) :
          (outcome = "returned" /\ got[tried[i]] # None)
              => (i = Len(tried) /\ ret = got[tried[i]])

\* C1: the clearinghouseState result is returned after the V2 source failed
C1_Witness ==
    /\ outcome = "returned"
    /\ tried = <<"v2", "clearinghouse">>
    /\ got["v2"] = None
    /\ got["clearinghouse"] # None
    /\ ret = got["clearinghouse"]

(* C2: whatever the upstream calls do (network error, non-200 status,       *)
(* malformed body, a 200 body of an unexpected shape), get_account_info    *)
(* ends by returning a value (a mapping) and never raises.                 *)
C2_NeverRaises ==
    /\ outcome # "raised"
    /\ Finished => (outcome = "returned" /\ IsDict(ret))

\* C2: a value is returned after the except clauses of every kind ran
C2_Witness ==
    /\ outcome = "returned"
    /\ {"v2", "endpoint", "scraping"} \subseteq errlog

(* C3: when the V2 attempt, the clearinghouseState attempt and the scrape   *)
(* all yield nothing, get_account_info returns SAMPLE_ACCOUNT_DATA.        *)
C3_SampleFallback ==
    (Finished /\ \A s \in DOMAIN got : got[s] = None)
        => (outcome = "returned" /\ ret = SAMPLE_ACCOUNT_DATA)

\* C3: the sample data is returned after all three sources yielded nothing
C3_Witness ==
    /\ Finished
    /\ tried = <<"v2", "clearinghouse", "scrape">>
    /\ \A s \in DOMAIN got : got[s] = None
    /\ ret = SAMPLE_ACCOUNT_DATA

----------------------------------------------------------------------------
(* Properties of scrape_hyperliquid_data, stated on the responses stored   *)
(* in all_data and on the value the scrape returned.                       *)

ScrapeOver == scraped # NotTried

HasOutput == ScrapeOver /\ scraped # None

\* the records of the returned mapping
Output == Get(scraped, "assetPositions", None).items

RECURSIVE AcctInputs(_)
\* the records of the account-state responses, each with its tag, in order
AcctInputs(data) ==
    IF Len(data) = 0 THEN <<>>
    ELSE LET tag  == data[1][1]
             body == data[1][2]
         IN  (IF tag \in {"clearinghouseState", "userState", "accountState"}
                   /\ IsDict(body) /\ HasKey(body, "assetPositions")
              THEN [k \in 1..Len(Get(body, "assetPositions", None).items) |->
                       [tag |-> tag, rec |-> Get(body, "assetPositions", None).items[k]]]
              ELSE <<>>)
             \o AcctInputs(Tail(data))

\* the records of the flat positions response
FlatInputs(data) ==
    IF \E i \in 1..Len(data) : data[i][1] = "positions" /\ IsList(data[i][2])
    THEN (data[CHOOSE i \in 1..Len(data) : data[i][1] = "positions"][2]).items
    ELSE <<>>

\* the PnL values the flat positions response holds for a coin
HeldPnl(data, coin) ==
    {PyFloat(Get(p, "unrealizedPnl", None)).v :
        p \in {q \in {FlatInputs(data)[i] : i \in 1..Len(FlatInputs(data))} :
                  /\ IsDict(q)
                  /\ HasKey(q, "coin") /\ Get(q, "coin", None) = coin
                  /\ HasKey(q, "unrealizedPnl")
                  /\ PyFloat(Get(q, "unrealizedPnl", None)).exc = ""}}

\* a well-formed account-state record: a mapping whose PnL, if any, is a number
WellFormed(rec) ==
    /\ IsDict(rec)
    /\ HasKey(rec, "unrealizedPnl")
           => PyFloat(Get(rec, "unrealizedPnl", None)).exc = ""

\* the record's own PnL is missing or zero
OwnPnlMissingOrZero(rec) ==
    \/ ~HasKey(rec, "unrealizedPnl")
    \/ PyFloat(Get(rec, "unrealizedPnl", None)) = [exc |-> "", v |-> 0]

(* C4: in the output of the scrape, every record of an account-state        *)
(* source (clearinghouseState, userState, accountState) whose own          *)
(* unrealizedPnl is missing or zero carries the PnL that the flat          *)
(* positions source of the same scrape holds for its coin, wherever the    *)
(* positions source comes in the processing order.                         *)
C4_GapFilledForEveryTag ==
    LET in == AcctInputs(all_data) IN
    (HasOutput /\ Len(Output) = Len(in)) =>
        \A k \in 1..Len(in) :
            (/\ WellFormed(in[k].rec)
             /\ OwnPnlMissingOrZero(in[k].rec)
             /\ HeldPnl(all_data, Get(in[k].rec, "coin", Unknown)) # {})
            => /\ HasKey(Output[k], "unrealizedPnl")
               /\ Get(Output[k], "unrealizedPnl", None).v
                      \in HeldPnl(all_data, Get(in[k].rec, "coin", Unknown))

(* C5: the output of the scrape has one entry for every record of every     *)
(* responding account-state source, in order and not deduplicated by coin: *)
(* its length is the sum of the lengths of their assetPositions lists.     *)
C5_NoDedupe ==
    LET in == AcctInputs(all_data) IN
    /\ HasOutput =>
          /\ Len(Output) = Len(in)
          /\ \A k \in 1..Len(in) :
                Get(Output[k], "coin", None) = Get(in[k].rec, "coin", None)
    /\ (ScrapeOver /\ "scraping" \notin errlog) => (HasOutput <=> Len(in) > 0)

\* C5: two records of the same coin from two sources are both in the output
C5_Witness ==
    /\ HasOutput
    /\ Len(Output) = 2
    /\ Get(Output[1], "coin", None) = Get(Output[2], "coin", None)
    /\ AcctInputs(all_data)[1].tag # AcctInputs(all_data)[2].tag

(* C6: when no account-state record has a missing or zero unrealizedPnl,    *)
(* the reconciliation is a no-op: each output record equals the            *)
(* corresponding input record, whatever the flat positions source holds.   *)
C6_NoGapNoop ==
    LET in == AcctInputs(all_data) IN
    (\A k \in 1..Len(in) : WellFormed(in[k].rec) /\ ~OwnPnlMissingOrZero(in[k].rec))
        => /\ HasOutput => Output = [k \in 1..Len(in) |-> in[k].rec]
           /\ (ScrapeOver /\ "scraping" \notin errlog) => (HasOutput <=> Len(in) > 0)

(* C6: a record with its own PnL is returned as it came although the        *)
(* positions source, processed before it, holds another PnL for its coin   *)
C6_Witness ==
    LET in == AcctInputs(all_data) IN
    /\ HasOutput
    /\ Len(in) = 1
    /\ in[1].tag = "accountState"
    /\ ~OwnPnlMissingOrZero(in[1].rec)
    /\ HeldPnl(all_data, Get(in[1].rec, "coin", Unknown)) # {}
    /\ Output = <<in[1].rec>>

\* an account-state response whose records are all well-formed
RespondedCorrectly(data, tag) ==
    \A k \in 1..Len(AcctInputs(data)) :
        AcctInputs(data)[k].tag = tag => WellFormed(AcctInputs(data)[k].rec)

(* C7: when some of the scraped endpoints fail (network error, non-200,     *)
(* malformed body, a malformed record in the body) and an account-state    *)
(* endpoint returns a non-empty list of well-formed records, the scrape    *)
(* still returns the records of the endpoints that responded correctly.    *)
C7_PartialFailureTolerated ==
    LET in   == AcctInputs(all_data)
        good == {k \in 1..Len(in) : RespondedCorrectly(all_data, in[k].tag)}
    IN  (ScrapeOver /\ good # {}) =>
            /\ HasOutput
            /\ Len(Output) >= Cardinality(good)

----------------------------------------------------------------------------
(* Position extraction.  A normalized record is a TLA+ record: status is   *)
(* "record" for a complete record, "none" when utils.extract_position_data *)
(* returned None, "skipped" when the handler skipped a zero size, "error"  *)
(* when the handler's except clause wrote its error line instead.          *)

Normalized(coin, size, entry_price, leverage, unrealized_pnl, liquidation_price) ==
    [status |-> "record", coin |-> coin, size |-> size,
     entry_price |-> entry_price, leverage |-> leverage,
     unrealized_pnl |-> unrealized_pnl, liquidation_price |-> liquidation_price]

\* try: x = float(value) / except (TypeError, ValueError): x keeps dflt
FloatOr(value, dflt) == IF PyFloat(value).exc = "" THEN PyFloat(value).v ELSE dflt

\* utils.py 81-128: the body of the try block
UtilsBlock(pos) ==
    IF ~IsDict(pos) THEN Raise                      \* position.get
    ELSE
    LET given == Get(pos, "position", Dict(<<>>))
        pos_details == IF ~Truthy(given) /\ HasKey(pos, "szi") THEN pos ELSE given
    IN  IF ~IsDict(pos_details) THEN Raise          \* pos_details.get
        ELSE IF HasKey(pos_details, "liquidationPx")
                  /\ PyFloat(Get(pos_details, "liquidationPx", Num(0))).exc # ""
             THEN Raise                             \* utils.py 124: no try
        ELSE Return(Normalized(
                 Get(pos, "coin", Unknown),
                 FloatOr(Get(pos_details, "szi", Num(0)), 0),
                 FloatOr(Get(pos_details, "entryPx", Num(0)), 0),
                 FloatOr(Get(pos_details, "leverage", Num(10)), 10),
                 FloatOr(Get(pos, "unrealizedPnl", Num(0)), 0),
                 IF HasKey(pos_details, "liquidationPx")
                 THEN PyFloat(Get(pos_details, "liquidationPx", Num(0))).v
                 ELSE 0))

\* utils.py 70-131
extract_position_data(pos) ==
    LET r == UtilsBlock(pos) IN
    IF r.o = "raise" THEN [NotRun EXCEPT !.status = "none"] ELSE r.val

\* bot.py 804-812
InlineCoin(pos) ==
    LET coin == Get(pos, "coin", None) IN
    IF ~Truthy(coin) \/ coin = Unknown
    THEN LET pos_details == Get(pos, "position", Dict(<<>>))
             nested == IF IsDict(pos_details) /\ HasKey(pos_details, "coin")
                       THEN Get(pos_details, "coin", None)
                       ELSE coin
         IN  IF ~Truthy(nested) THEN BTC ELSE nested
    ELSE coin

(* bot.py 828-829, 852-853, 868-869, 940-941: the test of a mapped value    *)
(* before float(v)                                                         *)
LooksNumeric(v) ==
    \/ v.t = "num"
    \/ v.t = "str" /\ IsDigit(ReplaceFirst(v.s, "."))

\* bot.py 903-904: the same test with one "-" allowed
LooksSignedNumeric(v) ==
    \/ v.t = "num"
    \/ v.t = "str" /\ IsDigit(ReplaceFirst(ReplaceFirst(v.s, "."), "-"))

\* the test the code applies to a mapped value of a field (signed: the PnL)
Passes(v, signed) == IF signed THEN LooksSignedNumeric(v) ELSE LooksNumeric(v)

(* bot.py 822-835 (and 847-859, 863-875, 899-915, 936-952): the value of a  *)
(* raw field: the default when it is None; the first mapped value that     *)
(* passes the test when it is a mapping; float(value) otherwise; an        *)
(* exception of float leaves the default.                                  *)
InlineNumeric(value, dflt, signed) ==
    IF value = None THEN dflt
    ELSE IF IsDict(value)
         THEN IF \E i \in 1..Len(value.kv) : Passes(value.kv[i][2], signed)
              THEN LET first == CHOOSE i \in 1..Len(value.kv) :
                                    /\ Passes(value.kv[i][2], signed)
                                    /\ \A j \in 1..(i - 1) :
                                          ~Passes(value.kv[j][2], signed)
                   IN  FloatOr(value.kv[first][2], dflt)
              ELSE dflt
    ELSE FloatOr(value, dflt)

\* "funding" taken for a key that contains 'pnl'
KeyHasPnlOrFunding(k) == k \in {"unrealizedPnl", "pnl", "closedPnl", "funding"}

\* 'pnl' in k.lower(), on the keys the records of the model use
KeyHasPnl(k) == k \in {"unrealizedPnl", "pnl", "closedPnl"}

\* bot.py 895: the values of the top-level keys that contain "pnl"
PnlKeyValues(pos) ==
    LET hits == SelectSeq(pos.kv, LAMBDA e : KeyHasPnl(e[1])) IN
    [i \in 1..Len(hits) |-> hits[i][2]]

\* bot.py 890-896, for a record whose bankBalance is a mapping or absent
PnlSources(pos) ==
    << Get(pos, "unrealizedPnl", None),
       Get(Get(pos, "bankBalance", Dict(<<>>)), "pnl", None),
       Get(pos, "pnl", None) >> \o PnlKeyValues(pos)

\* 'liquidation' in k.lower(), on the keys the records of the model use
KeyHasLiquidation(k) ==
    k \in {"liquidationPx", "liquidationPrice", "estLiquidationPx"}

LiquidationKeyValues(d) ==
    LET hits == SelectSeq(d.kv, LAMBDA e : KeyHasLiquidation(e[1])) IN
    [i \in 1..Len(hits) |-> hits[i][2]]

\* bot.py 925-933
LiqSources(pos, pos_details) ==
    << Get(pos_details, "liquidationPx", None),
       Get(pos, "liquidationPx", None),
       Get(pos_details, "liquidationPrice", None),
       Get(pos, "liquidationPrice", None) >>
        \o LiquidationKeyValues(pos_details) \o LiquidationKeyValues(pos)

\* the value of the last candidate that is not zero
ProbeLast(sources, signed) ==
    IF \E i \in 1..Len(sources) : InlineNumeric(sources[i], 0, signed) # 0
    THEN LET last == CHOOSE i \in 1..Len(sources) :
                         /\ InlineNumeric(sources[i], 0, signed) # 0
                         /\ \A j \in (i + 1)..Len(sources) :
                               InlineNumeric(sources[j], 0, signed) = 0
         IN  InlineNumeric(sources[last], 0, signed)
    ELSE 0

(* bot.py 889, 898-915 and 924, 935-952: the value of the first candidate   *)
(* that is not zero, and zero when there is none                           *)
Probe(sources, signed) ==
    IF \E i \in 1..Len(sources) : InlineNumeric(sources[i], 0, signed) # 0
    THEN LET first == CHOOSE i \in 1..Len(sources) :
                          /\ InlineNumeric(sources[i], 0, signed) # 0
                          /\ \A j \in 1..(i - 1) :
                                InlineNumeric(sources[j], 0, signed) = 0
         IN  InlineNumeric(sources[first], 0, signed)
    ELSE 0

Abs(n) == IF n < 0 THEN -n ELSE n

\* bot.py 815-817
InlineDetails(pos) ==
    LET given == Get(pos, "position", Dict(<<>>)) IN
    IF IsDict(given) THEN given ELSE Dict(<<>>)

\* bot.py 821-835
InlineSize(pos) == InlineNumeric(Get(InlineDetails(pos), "szi", None), 0, FALSE)

\* bot.py 842
InlineDirection(size) == IF size > 0 THEN "Long" ELSE "Short"

(* bot.py 878-883: the price of the coin in the market data, 0 when the     *)
(* coin is not listed, its price is None or its price is not a number      *)
CurrentPrice(md, coin) ==
    IF ~IsDict(md) THEN 0
    ELSE IF ~HasKey(md, coin) THEN 0
    ELSE IF Get(md, coin, None) = None THEN 0
    ELSE FloatOr(Get(md, coin, None), 0)

\* the derivation without the sign of the direction
DerivedPnlUnsigned(probed, entry_price, current_price, size_abs, direction) ==
    IF probed = 0 /\ entry_price > 0 /\ current_price > 0
    THEN ((current_price - entry_price) * size_abs) \div 10
    ELSE probed

(* bot.py 917-921: a PnL probed as zero is derived from the prices.  The    *)
(* product of a price difference and a size, both in tenths, is in         *)
(* hundredths: it is brought back to tenths.                               *)
DerivedPnl(probed, entry_price, current_price, size_abs, direction) ==
    IF probed = 0 /\ entry_price > 0 /\ current_price > 0
    THEN ((current_price - entry_price) * size_abs
             * (IF direction = "Long" THEN 1 ELSE -1)) \div 10
    ELSE probed

\* the estimate of a long position for a short one too
LiqEstimateOneSided(entry_price, leverage, direction) ==
    (entry_price * (leverage - 9)) \div leverage

(* bot.py 957-960: entry_price * (1 -+ 0.9 / leverage), with leverage and   *)
(* 0.9 in tenths, rounded down to a tenth                                  *)
LiqEstimate(entry_price, leverage, direction) ==
    IF direction = "Long"
    THEN (entry_price * (leverage - 9)) \div leverage
    ELSE (entry_price * (leverage + 9)) \div leverage

\* the estimate applied to a probed liquidation price as well
EstimatedLiquidationCompounded(probed, entry_price, leverage, direction) ==
    IF entry_price > 0 /\ leverage > 10
    THEN LiqEstimate(IF probed = 0 THEN entry_price ELSE probed, leverage, direction)
    ELSE probed

\* bot.py 955-961: a liquidation price probed as zero is estimated
EstimatedLiquidation(probed, entry_price, leverage, direction) ==
    IF probed = 0 /\ entry_price > 0 /\ leverage > 10
    THEN LiqEstimate(entry_price, leverage, direction)
    ELSE probed

\* the locals of the handler when nothing was computed
NoLocals ==
    [computed |-> FALSE, coin |-> None, size |-> 0, direction |-> "",
     entry_price |-> 0, leverage |-> 0, current_price |-> 0,
     probed_pnl |-> 0, unrealized_pnl |-> 0,
     probed_liquidation |-> 0, liquidation_price |-> 0]

(* bot.py 917-921, 955-961: the locals of the handler once the PnL is       *)
(* derived and the liquidation price estimated                             *)
Settled(coin, size, direction, entry_price, leverage, current_price, probed_pnl, probed_liq) ==
    [computed |-> TRUE, coin |-> coin, size |-> size,
     direction |-> direction, entry_price |-> entry_price,
     leverage |-> leverage, current_price |-> current_price,
     probed_pnl |-> probed_pnl,
     unrealized_pnl |-> DerivedPnl(probed_pnl, entry_price, current_price,
                                   Abs(size), direction),
     probed_liquidation |-> probed_liq,
     liquidation_price |-> EstimatedLiquidation(probed_liq, entry_price,
                                                leverage, direction)]

\* bot.py 842-952: the values read for a position of a given coin and size
Valued(pos, md, coin, pos_details, size) ==
    Settled(coin, size, InlineDirection(size),
            InlineNumeric(Get(pos_details, "entryPx", None), 0, FALSE),
            InlineNumeric(Get(pos_details, "leverage", None), 10, FALSE),
            CurrentPrice(md, coin),
            Probe(PnlSources(pos), TRUE),
            Probe(LiqSources(pos, pos_details), FALSE))

(* bot.py 803-961: the locals of the handler once the values of a position  *)
(* are computed, for a record the handler takes that far                   *)
InlineLocals(pos, md) ==
    Valued(pos, md, InlineCoin(pos), InlineDetails(pos), InlineSize(pos))

\* bot.py 803-896: the handler gets as far as computing the values
Computes(pos) ==
    /\ IsDict(pos)                                  \* position.get
    /\ InlineSize(pos) # 0                          \* bot.py 838-839
    /\ IsDict(Get(pos, "bankBalance", Dict(<<>>)))  \* bot.py 892: .get('pnl')

(* bot.py 963-1002: the text of the position.  The line of a liquidation    *)
(* price divides by the current price (bot.py 992-997), which is 0 for a   *)
(* coin the market data does not price.                                    *)
RenderBlock(loc) ==
    IF loc.liquidation_price > 0 /\ loc.current_price = 0
    THEN Raise                                      \* ZeroDivisionError
    ELSE Return(Normalized(loc.coin, loc.size, loc.entry_price, loc.leverage,
                           loc.unrealized_pnl, loc.liquidation_price))

\* bot.py 803-1002: the body of the try block of one position
InlineBlock(pos, md) ==
    IF ~IsDict(pos) THEN Raise                      \* position.get
    ELSE IF InlineSize(pos) = 0
         THEN Return([NotRun EXCEPT !.status = "skipped", !.coin = InlineCoin(pos)])
    ELSE IF ~IsDict(Get(pos, "bankBalance", Dict(<<>>)))
         THEN Raise                                 \* bot.py 892: .get('pnl')
    ELSE RenderBlock(InlineLocals(pos, md))

\* the outcome of the block as the loop leaves it
Outcome(r) == IF r.o = "raise" THEN [NotRun EXCEPT !.status = "error"] ELSE r.val

\* bot.py 801-1006: the except clause writes an error line for the position
InlineExtract(pos, md) == Outcome(InlineBlock(pos, md))

\* the locals the handler is left with after the position
HandlerLocals(pos, md) == IF Computes(pos) THEN InlineLocals(pos, md) ELSE NoLocals

----------------------------------------------------------------------------
(* The raw position records the extraction is run on *)

MaxEntries == 2     \* entries of a mapping given where a number is expected

\* a dict of the entries whose value is given
MkDict(entries) == Dict(SelectSeq(entries, LAMBDA e : e[2] # Absent))

\* the values met where a number is expected
Scalars == {
    Num(125), Num(-50), Num(0),
    Str(<<"1", "2", ".", "5">>), Str(<<"-", "5">>), Str(<<"3">>),
    NotANumber, None }

MappingKeys == <<"type", "value", "raw", "usd">>

Mappings(n) ==
    {Dict([i \in 1..Len(vs) |-> <<MappingKeys[i], vs[i]>>]) :
        vs \in UNION {[1..k -> Scalars] : k \in 1..n}}

PositionOf(coin, szi, entryPx, leverage, liquidationPx) ==
    MkDict(<< <<"coin", coin>>, <<"szi", szi>>, <<"leverage", leverage>>,
              <<"entryPx", entryPx>>, <<"liquidationPx", liquidationPx>> >>)

RecordOf(coin, pos, unrealizedPnl, bankBalance) ==
    MkDict(<< <<"coin", coin>>, <<"position", pos>>,
              <<"unrealizedPnl", unrealizedPnl>>, <<"bankBalance", bankBalance>> >>)

\* the coin given at the top level, inside position, at both levels or nowhere
CoinRecords ==
    {RecordOf(c, p, Absent, Absent) :
        c \in {Absent, BTC, Unknown, EmptyStr},
        p \in {Absent, NotANumber}
              \cup {PositionOf(n, Num(50), Num(1000), l, Absent) :
                       n \in {Absent, ETH, Unknown, EmptyStr},
                       l \in {Absent, Num(30)}}}

\* size, entry price or leverage given as a scalar or as a mapping
NumericRecords ==
    UNION {{RecordOf(BTC, PositionOf(Absent, v, Num(1000), Num(30), Absent), Absent, Absent),
            RecordOf(BTC, PositionOf(Absent, Num(50), v, Num(30), Absent), Absent, Absent),
            RecordOf(BTC, PositionOf(Absent, Num(50), Num(1000), v, Absent), Absent, Absent)} :
              v \in Scalars \cup Mappings(MaxEntries)}

\* the PnL and the liquidation price given in several places and shapes
ProbeRecords ==
    {RecordOf(BTC, PositionOf(Absent, Num(-50), Num(1000), Num(30), l), u, b) :
        l \in {Absent, Num(900), NotANumber, None},
        u \in {Absent, Num(0), Num(70), Str(<<"-", "5">>), NotANumber},
        b \in {Absent, NotANumber, Dict(<< <<"pnl", Num(-50)>> >>)}}

\* the PnL given under several of the keys the handler probes
PnlRecords ==
    {MkDict(<< <<"coin", BTC>>,
               <<"position", PositionOf(Absent, Num(-50), Num(1000), Absent, Absent)>>,
               <<"closedPnl", c>>, <<"pnl", p>>,
               <<"bankBalance", b>>, <<"unrealizedPnl", u>> >>) :
        c \in {Absent, Num(20), None},
        p \in {Absent, Num(0), Num(30), NotANumber},
        b \in {Absent} \cup {Dict(<< <<"pnl", v>> >>) : v \in {Num(0), Num(-50), NotANumber}},
        u \in {Absent, Num(0), Num(70), NotANumber,
               Dict(<< <<"type", NotANumber>>, <<"value", Str(<<"-", "5">>)>> >>)}}

\* long and short positions with a leverage of 10, 1, 0.5 or 0
LeverageRecords ==
    {RecordOf(BTC, PositionOf(Absent, z, e, l, q), Absent, Absent) :
        z \in {Num(50), Num(-50)},
        e \in {Num(1000), Num(0), Num(-50)},
        l \in {Num(100), Num(10), Num(5), Num(0)},
        q \in {Absent, Num(0), Num(900)}}

\* records with fields the extraction has no name for, at both levels
DriftRecords ==
    {MkDict(<< <<"coin", BTC>>,
               <<"position", MkDict(<< <<"szi", Num(50)>>, <<"entryPx", Num(1000)>>,
                                       <<"leverage", Num(30)>>, <<"marginUsed", m>>,
                                       <<"estLiquidationPx", q>> >>)>>,
               <<"funding", f>>, <<"closedPnl", c>> >>) :
        m \in {Absent, Num(70)},
        q \in {Absent, Num(900)},
        f \in {Absent, Num(70), NotANumber},
        c \in {Absent, Num(20)}}

\* config.py 50-75: the positions of the sample account
SampleRecords ==
    {Get(SAMPLE_ACCOUNT_DATA, "assetPositions", None).items[i] : i \in 1..2}

RawRecords ==
    CoinRecords \cup NumericRecords \cup ProbeRecords \cup PnlRecords
        \cup LeverageRecords \cup DriftRecords \cup SampleRecords

(* bot.py 798, 430: the market data the handlers got from get_market_data:  *)
(* a mapping from coin to price, here no coin or BTC and ETH at one price  *)
MarketPrices == {Num(1100), Num(900), Num(0), None, NotANumber}

Markets ==
    {Dict(<<>>)} \cup {Dict(<< <<BTC, p>>, <<ETH, p>> >>) : p \in MarketPrices}

NoLabels == [portfolio |-> "", format |-> ""]

InitExtract ==
    /\ FetchStart
    /\ MarketIdle
    /\ AlertStart
    /\ WalletIdle
    /\ raw \in RawRecords
    /\ markets_data \in Markets
    /\ u_out = NotRun
    /\ i_out = NotRun
    /\ i_loc = NoLocals
    /\ labels = NoLabels

\* bot.py 457, 535, 1062: utils.extract_position_data(position)
ExtractUtils ==
    /\ u_out = NotRun
    /\ u_out' = extract_position_data(raw)
    /\ UNCHANGED <<notExtractVars, raw, markets_data, i_out, i_loc, labels>>

\* bot.py 801-1006: one position of the view_positions loop
ExtractInline ==
    /\ i_out = NotRun
    /\ i_out' = InlineExtract(raw, markets_data)
    /\ i_loc' = HandlerLocals(raw, markets_data)
    /\ UNCHANGED <<notExtractVars, raw, markets_data, u_out, labels>>

(* utils.py 196-216: the price of the coin; the case-insensitive scan finds *)
(* nothing more on the market data of the model, whose coins are in upper  *)
(* case.  float() of a price that is not a number raises.                  *)
get_current_price(md, coin) ==
    IF HasKey(md, coin)
    THEN LET f == PyFloat(Get(md, coin, Num(0))) IN
         IF f.exc = "" THEN Return(f.v) ELSE Raise
    ELSE Return(0)

\* bot.py 470 (and 1066)
PortfolioDirection(size) == IF size > 0 THEN "Long" ELSE "Short"

\* utils.py 156
FormatDirection(size) == IF size > 0 THEN "LONG" ELSE "SHORT"

(* bot.py 455-483: one position of portfolio_command; position_data is None *)
(* when the extraction failed, and the except clause writes an error line  *)
PortfolioLine(position_data, md) ==
    IF position_data.status # "record" THEN "error"
    ELSE IF get_current_price(md, position_data.coin).o = "raise" THEN "error"
    ELSE PortfolioDirection(position_data.size)

(* bot.py 535-546, utils.py 133-180: position_command on the coin of the    *)
(* record; an exception ends the wallet's loop (bot.py 558-559)            *)
PositionText(position_data, md) ==
    IF position_data.status # "record" THEN "error"
    ELSE IF get_current_price(md, position_data.coin).o = "raise" THEN "error"
    ELSE FormatDirection(position_data.size)

\* bot.py 454-483
RenderPortfolio ==
    /\ u_out # NotRun
    /\ labels.portfolio = ""
    /\ labels' = [labels EXCEPT !.portfolio = PortfolioLine(u_out, markets_data)]
    /\ UNCHANGED <<notExtractVars, raw, markets_data, u_out, i_out, i_loc>>

\* bot.py 534-557
RenderPosition ==
    /\ u_out # NotRun
    /\ labels.format = ""
    /\ labels' = [labels EXCEPT !.format = PositionText(u_out, markets_data)]
    /\ UNCHANGED <<notExtractVars, raw, markets_data, u_out, i_out, i_loc>>

NextExtract == ExtractUtils \/ ExtractInline \/ RenderPortfolio \/ RenderPosition

SpecExtract == InitExtract /\ [][NextExtract]_vars

----------------------------------------------------------------------------
(* Properties of the extraction *)

(* C8: extraction never fails its caller: for every record, whatever each   *)
(* field holds, utils.extract_position_data returns a normalized record    *)
(* (never None) and the view_positions extraction does not raise.          *)
C8_ExtractionNeverFails ==
    /\ u_out # NotRun => u_out.status = "record"
    /\ i_out # NotRun => i_out.status \in {"record", "skipped"}

\* a coin that is given: a non-empty string
Present(v) == v.t = "str" /\ Len(v.s) > 0

(* C9: for every position the view_positions handler renders, the coin is   *)
(* the top-level coin when it is given and not "Unknown"; otherwise the    *)
(* coin of the nested position mapping when it is given; otherwise, a      *)
(* top-level "Unknown" with no nested coin included, the default "BTC".    *)
C9_CoinDetermination ==
    LET top    == Get(raw, "coin", Absent)
        pd     == Get(raw, "position", Absent)
        nested == IF IsDict(pd) THEN Get(pd, "coin", Absent) ELSE Absent
    IN  i_out.status = "record" =>
            i_out.coin = IF Present(top) /\ top # Unknown THEN top
                         ELSE IF Present(nested) THEN nested
                         ELSE BTC

(* the first mapped value, in entry order, that float() parses, and the     *)
(* default when no entry parses                                            *)
FirstParsing(m, dflt) ==
    IF \E i \in 1..Len(m.kv) : PyFloat(m.kv[i][2]).exc = ""
    THEN PyFloat(m.kv[CHOOSE i \in 1..Len(m.kv) :
                          /\ PyFloat(m.kv[i][2]).exc = ""
                          /\ \A j \in 1..(i - 1) : PyFloat(m.kv[j][2]).exc # ""][2]).v
    ELSE dflt

(* C10: when the raw size, entry price or leverage is a mapping, the        *)
(* extraction uses the first mapped value, in entry order, that parses as  *)
(* a number (a number or a numeric string, negative values included) and   *)
(* the field's default when no entry parses.                               *)
C10_MappingFirstNumeric ==
    LET pd == Get(raw, "position", Absent)
        f(k) == IF IsDict(pd) THEN Get(pd, k, Absent) ELSE Absent
    IN  /\ (i_out.status \in {"record", "skipped"} /\ IsDict(f("szi")))
              => i_out.size = FirstParsing(f("szi"), 0)
        /\ (i_out.status = "record" /\ IsDict(f("entryPx")))
              => i_out.entry_price = FirstParsing(f("entryPx"), 0)
        /\ (i_out.status = "record" /\ IsDict(f("leverage")))
              => i_out.leverage = FirstParsing(f("leverage"), 10)

----------------------------------------------------------------------------
(* Properties of the values the view_positions handler computes *)

\* the number a candidate parses to, and 0 when it is absent or does not parse
Parsed(c) ==
    IF c = Absent \/ c = None THEN 0
    ELSE IF IsDict(c) THEN FirstParsing(c, 0)
    ELSE IF PyFloat(c).exc = "" THEN PyFloat(c).v
    ELSE 0

\* the first number of a sequence that is not zero, and 0 when all are zero
RECURSIVE FirstNonZero(_)
FirstNonZero(ns) ==
    IF ns = <<>> THEN 0
    ELSE IF Head(ns) # 0 THEN Head(ns)
    ELSE FirstNonZero(Tail(ns))

\* the values of the top-level keys whose name contains "pnl", in key order
PnlNamed(rec) ==
    LET hits == SelectSeq(rec.kv, LAMBDA e :
                    e[1] \in {"unrealizedPnl", "pnl", "closedPnl"}) IN
    [i \in 1..Len(hits) |-> Parsed(hits[i][2])]

(* C11: the probed PnL is the number of the first candidate, in the order   *)
(* top-level unrealizedPnl, bankBalance.pnl, top-level pnl, every          *)
(* top-level key containing "pnl", that parses to a number other than      *)
(* zero, and zero when every candidate is absent, does not parse or        *)
(* parses to zero.                                                         *)
C11_PnlProbeOrder ==
    i_loc.computed =>
        i_loc.probed_pnl =
            FirstNonZero(<< Parsed(Get(raw, "unrealizedPnl", Absent)),
                            Parsed(Get(Get(raw, "bankBalance", Dict(<<>>)), "pnl", Absent)),
                            Parsed(Get(raw, "pnl", Absent)) >> \o PnlNamed(raw))

(* C11: the first candidate does not parse, the second is zero, and the     *)
(* probed PnL is the third candidate although a later one is not zero      *)
C11_Witness ==
    /\ i_loc.computed
    /\ Get(raw, "unrealizedPnl", Absent) = NotANumber
    /\ Get(Get(raw, "bankBalance", Dict(<<>>)), "pnl", Absent) = Num(0)
    /\ Get(raw, "pnl", Absent) = Num(30)
    /\ Get(raw, "closedPnl", Absent) = Num(20)
    /\ i_loc.probed_pnl = 30

(* C12: when the probed PnL is zero and the entry price and the current     *)
(* market price are both positive, the PnL the handler shows is            *)
(* (current price - entry price) * |size|, positive for a long and         *)
(* negated for a short position; when the probed PnL is not zero or one    *)
(* of the prices is not positive it is the probed PnL.  Values are in      *)
(* tenths, so ten times the PnL is the product of the two factors.         *)
C12_PnlDerivation ==
    i_loc.computed =>
        /\ IF i_loc.probed_pnl = 0 /\ i_loc.entry_price > 0 /\ i_loc.current_price > 0
           THEN i_loc.unrealized_pnl * 10 =
                    (i_loc.current_price - i_loc.entry_price) * Abs(i_loc.size)
                        * (IF i_loc.size > 0 THEN 1 ELSE -1)
           ELSE i_loc.unrealized_pnl = i_loc.probed_pnl
        /\ i_out.status = "record" => i_out.unrealized_pnl = i_loc.unrealized_pnl

(* C12: entry 100, price 110, size -5 and no PnL probed: the position is    *)
(* shown with a PnL of -50                                                 *)
C12_Witness ==
    /\ i_out.status = "record"
    /\ i_loc.probed_pnl = 0
    /\ i_loc.entry_price = 1000 /\ i_loc.current_price = 1100 /\ i_loc.size = -50
    /\ i_out.unrealized_pnl = -500

C14_LeverageAtLeastOne ==
    /\ u_out.status = "record" => u_out.leverage >= 10
    /\ i_out.status = "record" => i_out.leverage >= 10

\* the keys the extraction is said to recognize
RecognizedKeys ==
    {"coin", "position", "szi", "entryPx", "leverage", "unrealizedPnl", "pnl",
     "bankBalance", "liquidationPx", "liquidationPrice"}

\* the keys of a mapping, and the mapping without one of them
KeysOf(d) == IF IsDict(d) THEN {d.kv[i][1] : i \in 1..Len(d.kv)} ELSE {}
Without(d, k) == Dict(SelectSeq(d.kv, LAMBDA e : e[1] # k))
WithoutNested(d, k) == SetKey(d, "position", Without(Get(d, "position", None), k))

\* both extractions give on the record what they gave on the raw record
SameOutputs(rec) ==
    /\ u_out # NotRun => extract_position_data(rec) = u_out
    /\ i_out # NotRun => InlineExtract(rec, markets_data) = i_out

\* a key whose name contains "pnl" or "liquidation"
ProbedByName(k) == k \in {"closedPnl", "estLiquidationPx"}

AsRawRecord(o) ==
    Dict(<< <<"coin", o.coin>>,
            <<"position", Dict(<< <<"szi", Num(o.size)>>,
                                  <<"entryPx", Num(o.entry_price)>>,
                                  <<"leverage", Num(o.leverage)>>,
                                  <<"liquidationPx", Num(o.liquidation_price)>> >>)>>,
            <<"unrealizedPnl", Num(o.unrealized_pnl)>> >>)

(* C16: a normalized output written back as a raw record and extracted      *)
(* again gives the same field values, for utils.extract_position_data and  *)
(* for the view_positions handler (on the same market data).               *)
C16_RoundTripStable ==
    /\ u_out.status = "record" => extract_position_data(AsRawRecord(u_out)) = u_out
    /\ i_out.status = "record"
          => InlineExtract(AsRawRecord(i_out), markets_data) = i_out

(* C16: both extractions gave a record, the handler's with a derived PnL    *)
(* and an estimated liquidation price                                      *)
C16_Witness ==
    /\ u_out.status = "record"
    /\ i_out.status = "record"
    /\ i_loc.probed_pnl = 0 /\ i_out.unrealized_pnl # 0
    /\ i_loc.probed_liquidation = 0 /\ i_out.liquidation_price # 0

(* C19: in every rendering path (portfolio_command, format_position_text    *)
(* reached from position_command, the view_positions handler) a position   *)
(* is labelled Long exactly when its size is above 0 and Short exactly     *)
(* when it is below 0; a position of size 0 is labelled neither.           *)
C19_SignEncodesDirection ==
    /\ labels.portfolio = "Long" => u_out.size > 0
    /\ labels.portfolio = "Short" => u_out.size < 0
    /\ labels.format = "LONG" => u_out.size > 0
    /\ labels.format = "SHORT" => u_out.size < 0
    /\ (i_out.status = "record" /\ i_loc.direction = "Long") => i_out.size > 0
    /\ (i_out.status = "record" /\ i_loc.direction = "Short") => i_out.size < 0

\* the view_positions handler, which skips a size of 0, labels by the sign
ViewPositionsBySign ==
    i_out.status = "record" =>
        /\ i_loc.direction = "Long" <=> i_out.size > 0
        /\ i_loc.direction = "Short" <=> i_out.size < 0

----------------------------------------------------------------------------
(* get_market_data *)

\* config.py 78-81: HYPE 15.8555 and BERA 6.6557, to the tenth
SAMPLE_MARKET_DATA ==
    Dict(<< <<Str(<<"H", "Y", "P", "E">>), Num(158)>>,
            <<Str(<<"B", "E", "R", "A">>), Num(66)>> >>)

\* the prices a body of the allMids endpoint may give a coin
MidPrices == {Num(1100), Num(900), Num(0), Str(<<"3">>), NotANumber, None}

(* the bodies of a response of the allMids endpoint: a mapping from coin    *)
(* to price for BTC, for ETH, for both or for no coin, and bodies of       *)
(* another shape: lists, null, a number                                    *)
MidBodies ==
    {MkDict(<< <<BTC, b>>, <<ETH, e>> >>) :
        b \in MidPrices \cup {Absent}, e \in MidPrices \cup {Absent}}
      \cup {List(<<>>), List(<<Num(10)>>), None, Num(0), Num(10)}

MidResponses == Failures \cup {Resp("ok", body) : body \in MidBodies}

\* bot.py 149-152
MarketFallback == SAMPLE_MARKET_DATA

\* bot.py 147-154: the value returned for what fetch_data gave
MarketResult(data) == IF ~Truthy(data) THEN MarketFallback ELSE data

InitMarket ==
    /\ FetchStart /\ ExtractIdle /\ AlertStart /\ WalletIdle
    /\ MarketIdle

\* bot.py 143-147: the one request, to the allMids endpoint
MarketRequest ==
    /\ m_pc = "call"
    /\ m_pc' = "awaiting"
    /\ m_resp' \in MidResponses
    /\ m_posts' = m_posts + 1
    /\ UNCHANGED <<m_ret, notMarketVars>>

\* bot.py 147-154: fetch_data returns and get_market_data returns
MarketReturn ==
    /\ m_pc = "awaiting"
    /\ m_pc' = "done"
    /\ m_ret' = MarketResult(fetch_data(m_resp))
    /\ UNCHANGED <<m_resp, m_posts, notMarketVars>>

NextMarket == MarketRequest \/ MarketReturn

SpecMarket == InitMarket /\ [][NextMarket]_vars

(* C17: get_market_data issues one request and does not raise; on a         *)
(* network error, a non-200 status or a malformed body (not JSON, or not   *)
(* a mapping) it returns SAMPLE_MARKET_DATA; on a successful response it   *)
(* returns the mapping received.                                           *)
C17_MarketFallback ==
    m_pc = "done" =>
        /\ m_posts = 1
        /\ m_resp.kind # "ok" => m_ret = SAMPLE_MARKET_DATA
        /\ (m_resp.kind = "ok" /\ ~IsDict(m_resp.body)) => m_ret = SAMPLE_MARKET_DATA
        /\ (m_resp.kind = "ok" /\ IsDict(m_resp.body)) => m_ret = m_resp.body

(* what the code does: a response that failed or whose body is falsy gives  *)
(* the sample data, any other body is returned as received                 *)
MarketReturnsTruthyBody ==
    m_pc = "done" =>
        /\ m_posts = 1
        /\ m_resp.kind # "ok" => m_ret = SAMPLE_MARKET_DATA
        /\ (m_resp.kind = "ok" /\ ~Truthy(m_resp.body)) => m_ret = SAMPLE_MARKET_DATA
        /\ (m_resp.kind = "ok" /\ Truthy(m_resp.body)) => m_ret = m_resp.body

----------------------------------------------------------------------------
(* The alert registry of price_alerts.py.  check_alerts is a coroutine: it  *)
(* runs until it awaits (get_market_data, get_account_info, send_message)  *)
(* and the handlers that add and remove alerts run only while it is        *)
(* suspended there, or while no sweep runs.  The alerts are those the      *)
(* handlers create (price_alerts.py 361-366, 391-397): one_time is False,  *)
(* so a sweep removes none.  Each alert carries the number of the          *)
(* add_alert call that stored it, to tell alerts of equal id apart.        *)

MaxAlerts == 3      \* add_alert calls in a behaviour

Users == {1, 2}

AlertKinds == {"price", "liquidation"}

\* the list of a user in the registry, and the position of its entry
HasUser(reg, user_id) == \E k \in 1..Len(reg) : reg[k][1] = user_id
EntryOf(reg, user_id) == CHOOSE k \in 1..Len(reg) : reg[k][1] = user_id
ListOf(reg, user_id) == reg[EntryOf(reg, user_id)][2]

\* price_alerts.py 42: f"{user_id}_{len(self.alerts[user_id])}"
AlertId(user_id, list) == <<user_id, Len(list)>>

\* price_alerts.py 41-44: the list of the user with the alert appended
Stored(alert_data, user_id, list) ==
    Append(list, [alert_data EXCEPT !.id = AlertId(user_id, list)])

\* price_alerts.py 37-44: the registry after add_alert
Added(reg, user_id, alert_data) ==
    IF HasUser(reg, user_id)
    THEN [reg EXCEPT ![EntryOf(reg, user_id)][2] =
              Stored(alert_data, user_id, ListOf(reg, user_id))]
    ELSE Append(reg, <<user_id, Stored(alert_data, user_id, <<>>)>>)

\* price_alerts.py 49-50: the registry after remove_alert, for a user it holds
Removed(reg, user_id, alert_id) ==
    [reg EXCEPT ![EntryOf(reg, user_id)][2] =
        SelectSeq(@, LAMBDA a : a.id # alert_id)]

\* check_alerts is not running, or is suspended in an await
Suspended ==
    sweep.pc \in {"idle", "await_market", "await_account", "await_send", "done"}

\* check_alerts iterates over the list of the user and the list is still
\* the object the registry holds (remove_alert binds a new list)
SweepHolds(user_id) ==
    /\ sweep.pc \in {"next_alert", "await_account", "notify", "await_send"}
    /\ sweep.user = user_id
    /\ sweep.shared

InitAlerts ==
    /\ FetchStart /\ ExtractIdle /\ MarketIdle /\ WalletIdle
    /\ AlertStart

\* price_alerts.py 35-45, called from handle_price_input (368, 399)
AddAlert ==
    /\ Suspended
    /\ serial < MaxAlerts
    /\ \E user_id \in Users, kind \in AlertKinds :
         LET alert_data == [id |-> <<>>, serial |-> serial + 1, kind |-> kind] IN
         /\ alerts' = Added(alerts, user_id, alert_data)
         /\ sweep' = IF SweepHolds(user_id)
                     THEN [sweep EXCEPT !.alerts = ListOf(alerts', user_id)]
                     ELSE sweep
    /\ serial' = serial + 1
    /\ UNCHANGED <<snapshot, evaluated, notAlertVars>>

\* price_alerts.py 47-52, called from handle_alert_callback (200-202)
RemoveAlert ==
    /\ Suspended
    /\ \E k \in 1..Len(alerts) : \E j \in 1..Len(alerts[k][2]) :
         /\ alerts' = Removed(alerts, alerts[k][1], alerts[k][2][j].id)
         /\ sweep' = IF sweep.user = alerts[k][1]
                     THEN [sweep EXCEPT !.shared = FALSE]
                     ELSE sweep
    /\ UNCHANGED <<serial, snapshot, evaluated, notAlertVars>>

\* the alerts a registry holds, by the number of their add_alert call
SerialsIn(reg) ==
    UNION {{reg[k][2][j].serial : j \in 1..Len(reg[k][2])} : k \in 1..Len(reg)}

\* price_alerts.py 58-62: check_alerts is called and awaits get_market_data
SweepCall ==
    /\ sweep.pc = "idle"
    /\ sweep' = [sweep EXCEPT !.pc = "await_market"]
    /\ snapshot' = SerialsIn(alerts)
    /\ evaluated' = {}
    /\ UNCHANGED <<alerts, serial, notAlertVars>>

(* price_alerts.py 62-64: the market data is there; the loop over the keys  *)
(* of the registry starts, and its iterator notes the size of the dict     *)
SweepIterate ==
    /\ sweep.pc = "await_market"
    /\ sweep' = [sweep EXCEPT !.pc = "next_user", !.size = Len(alerts), !.pos = 0]
    /\ UNCHANGED <<alerts, serial, snapshot, evaluated, notAlertVars>>

(* price_alerts.py 64-66: the next key of the registry.  The iterator       *)
(* raises RuntimeError when the dict has changed size since the loop       *)
(* started; the except clause (127-128) ends the sweep.                    *)
SweepNextUser ==
    /\ sweep.pc = "next_user"
    /\ sweep' =
         IF Len(alerts) # sweep.size
         THEN [sweep EXCEPT !.pc = "done", !.error = "changed size"]
         ELSE IF sweep.pos = sweep.size
         THEN [sweep EXCEPT !.pc = "done"]
         ELSE [sweep EXCEPT !.pc = "next_alert", !.pos = @ + 1,
                            !.user = alerts[sweep.pos + 1][1],
                            !.alerts = alerts[sweep.pos + 1][2],
                            !.shared = TRUE, !.i = 0, !.triggered = <<>>]
    /\ UNCHANGED <<alerts, serial, snapshot, evaluated, notAlertVars>>

(* price_alerts.py 68-89, 111-112: the next alert of the list.  A price     *)
(* alert is evaluated against the market data at once, triggered or not;   *)
(* a liquidation alert awaits get_account_info first.                      *)
SweepAlert ==
    /\ sweep.pc = "next_alert"
    /\ IF sweep.i = Len(sweep.alerts)
       THEN /\ sweep' = [sweep EXCEPT !.pc = "notify"]
            /\ evaluated' = evaluated
       ELSE LET alert == sweep.alerts[sweep.i + 1] IN
            IF alert.kind = "liquidation"
            THEN /\ sweep' = [sweep EXCEPT !.pc = "await_account"]
                 /\ evaluated' = evaluated
            ELSE /\ \E triggered \in BOOLEAN :
                      sweep' = [sweep EXCEPT
                                   !.i = @ + 1,
                                   !.triggered = IF triggered THEN Append(@, alert) ELSE @]
                 /\ evaluated' = evaluated \cup {alert.serial}
    /\ UNCHANGED <<alerts, serial, snapshot, notAlertVars>>

\* price_alerts.py 89-112: the account is there; the liquidation alert is evaluated
SweepAccount ==
    /\ sweep.pc = "await_account"
    /\ LET alert == sweep.alerts[sweep.i + 1] IN
       /\ \E triggered \in BOOLEAN :
            sweep' = [sweep EXCEPT
                         !.pc = "next_alert", !.i = @ + 1,
                         !.triggered = IF triggered THEN Append(@, alert) ELSE @]
       /\ evaluated' = evaluated \cup {alert.serial}
    /\ UNCHANGED <<alerts, serial, snapshot, notAlertVars>>

\* price_alerts.py 115-121: the next triggered alert is sent, or the user is done
SweepNotify ==
    /\ sweep.pc = "notify"
    /\ sweep' = IF sweep.triggered = <<>>
                THEN [sweep EXCEPT !.pc = "next_user"]
                ELSE [sweep EXCEPT !.pc = "await_send"]
    /\ UNCHANGED <<alerts, serial, snapshot, evaluated, notAlertVars>>

(* price_alerts.py 117-125: send_message returns, and the alert, whose      *)
(* one_time is False, stays; or send_message raises and the except clause  *)
(* (127-128) ends the sweep                                                *)
SweepSent ==
    /\ sweep.pc = "await_send"
    /\ \E sent \in BOOLEAN :
         sweep' = IF sent
                  THEN [sweep EXCEPT !.pc = "notify", !.triggered = Tail(@)]
                  ELSE [sweep EXCEPT !.pc = "done", !.error = "send failed"]
    /\ UNCHANGED <<alerts, serial, snapshot, evaluated, notAlertVars>>

NextAlerts ==
    \/ AddAlert \/ RemoveAlert
    \/ SweepCall \/ SweepIterate \/ SweepNextUser \/ SweepAlert
    \/ SweepAccount \/ SweepNotify \/ SweepSent

SpecAlerts == InitAlerts /\ [][NextAlerts]_vars

(* C18: whatever add_alert and remove_alert calls run while check_alerts    *)
(* is suspended, for any user, a user with no alert yet included, the      *)
(* sweep is not aborted by them and has evaluated, when it ends, every     *)
(* alert that was in the registry when it was called and still is.         *)
C18_SweepSurvivesInterleaving ==
    sweep.pc = "done" =>
        /\ sweep.error # "changed size"
        /\ sweep.error = "" => (snapshot \cap SerialsIn(alerts)) \subseteq evaluated

\* the ids of the alerts of one user are all different
UniqueIds(list) ==
    \A i, j \in 1..Len(list) : list[i].id = list[j].id => i = j

(* C20: after any add_alert and remove_alert calls no two alerts of one     *)
(* user have the same id, so that remove_alert with the id of an alert     *)
(* removes that alert only.                                                *)
C20_AlertIdsUnique ==
    \A k \in 1..Len(alerts) : UniqueIds(alerts[k][2])


----------------------------------------------------------------------------
(* Wallet tracking: /track, the prompted address and the Remove button *)
(* (bot.py 286-356, 765-780, 1143-1164).  An address is its sequence of *)
(* characters; user_data['tracked_wallets'] is Absent or a List of them. *)

PyBool(b) == [t |-> "bool", v |-> b]

RECURSIVE Rep(_, _)
\* c * n, for a one-character string c
Rep(c, n) == IF n = 0 THEN <<>> ELSE <<c>> \o Rep(c, n - 1)

\* s.startswith(prefix)
StartsWith(s, prefix) ==
    Len(s) >= Len(prefix) /\ SubSeq(s, 1, Len(prefix)) = prefix

IsSpace(c) == c \in {" ", "\n", "\t"}

RECURSIVE LStrip(_)
LStrip(s) == IF Len(s) > 0 /\ IsSpace(Head(s)) THEN LStrip(Tail(s)) ELSE s

RECURSIVE RStrip(_)
RStrip(s) ==
    IF Len(s) > 0 /\ IsSpace(s[Len(s)]) THEN RStrip(SubSeq(s, 1, Len(s) - 1)) ELSE s

\* s.strip()
Strip(s) == RStrip(LStrip(s))

RECURSIVE Replaced(_, _)
\* s.replace(old, ""): every occurrence of old, from the left, is dropped
Replaced(s, old) ==
    IF Len(s) = 0 THEN s
    ELSE IF StartsWith(s, old) THEN Replaced(SubSeq(s, Len(old) + 1, Len(s)), old)
    ELSE <<Head(s)>> \o Replaced(Tail(s), old)

\* x in items
Contains(items, x) == \E i \in 1..Len(items) : items[i] = x

RECURSIVE RemoveFirst(_, _)
\* items.remove(x), for an x that is in items: its first occurrence goes
RemoveFirst(items, x) ==
    IF Head(items) = x THEN Tail(items) ELSE <<Head(items)>> \o RemoveFirst(Tail(items), x)

ZeroX == <<"0", "x">>
UntrackPrefix == <<"u", "n", "t", "r", "a", "c", "k", "_">>

\* the texts a user sends
GoodAddress == ZeroX \o Rep("a", 39) \o <<"F">>
NonHexAddress == ZeroX \o Rep("z", 40)
NoPrefixAddress == Rep("a", 42)
InnerAddress == ZeroX \o Rep("a", 32)
NestedAddress == ZeroX \o UntrackPrefix \o Rep("a", 32)
PaddedAddress == <<" ">> \o GoodAddress \o <<"\n">>

\* context.args of a /track command: the words after the command
TrackArgs ==
    {<<>>} \cup {<<w>> : w \in {GoodAddress, NonHexAddress, InnerAddress, NestedAddress}}

\* update.message.text of a text message that is not a command
MessageTexts ==
    {GoodAddress, PaddedAddress, NonHexAddress, NoPrefixAddress, InnerAddress, NestedAddress}

\* the wallets list_wallets_inline made a Remove button for (bot.py 1125-1132)
ButtonWallets == {GoodAddress, NonHexAddress, InnerAddress, NestedAddress}

\* user_data.get('tracked_wallets', [])
WalletsOr(tw) == IF tw = Absent THEN <<>> ELSE tw.items

\* bot.py 286-315: prompt_track_wallet
Prompted(op, arg) ==
    /\ awaiting_wallet_address' = PyBool(TRUE)
    /\ w_reply' = "prompt"
    /\ w_last' = [op |-> op, arg |-> arg, before |-> WalletsOr(tracked_wallets)]
    /\ UNCHANGED tracked_wallets

\* bot.py 337-339: the list after add_wallet
WithWallet(items, wallet_address) ==
    IF Contains(items, wallet_address) THEN items ELSE Append(items, wallet_address)

\* bot.py 328-356: add_wallet
add_wallet(op, arg, wallet_address) ==
    /\ tracked_wallets' = List(WithWallet(WalletsOr(tracked_wallets), wallet_address))
    /\ w_reply' = IF Contains(WalletsOr(tracked_wallets), wallet_address)
                  THEN "already_tracking" ELSE "now_tracking"
    /\ w_last' = [op |-> op, arg |-> arg, before |-> WalletsOr(tracked_wallets)]

\* bot.py 317-326: /track
TrackCommand ==
    \E args \in TrackArgs :
        IF Len(args) < 1
        THEN Prompted("track", args) /\ UNCHANGED notWalletVars
        ELSE /\ add_wallet("track", args, args[1])
             /\ UNCHANGED <<awaiting_wallet_address, notWalletVars>>

\* bot.py 718-720, 744-746: the Track buttons
TrackButton ==
    /\ Prompted("button", <<>>)
    /\ UNCHANGED notWalletVars

\* bot.py 1149: the address check of the prompted input
PassesCheck(wallet_address) ==
    StartsWith(wallet_address, ZeroX) /\ Len(wallet_address) = 42

\* bot.py 1143-1164: handle_wallet_input
WalletInput ==
    \E text \in MessageTexts :
        IF awaiting_wallet_address # PyBool(TRUE)
        THEN /\ w_reply' = ""
             /\ w_last' = [op |-> "ignored", arg |-> text, before |-> WalletsOr(tracked_wallets)]
             /\ UNCHANGED <<tracked_wallets, awaiting_wallet_address, notWalletVars>>
        ELSE IF ~PassesCheck(Strip(text))
        THEN /\ w_reply' = "invalid"
             /\ w_last' = [op |-> "input", arg |-> text, before |-> WalletsOr(tracked_wallets)]
             /\ UNCHANGED <<tracked_wallets, awaiting_wallet_address, notWalletVars>>
        ELSE /\ awaiting_wallet_address' = PyBool(FALSE)
             /\ add_wallet("input", text, Strip(text))
             /\ UNCHANGED notWalletVars

\* bot.py 767: data.replace("untrack_", "")
WalletToRemove(data) == Replaced(data, UntrackPrefix)

\* bot.py 765-780: the Remove button of a wallet, callback data untrack_<wallet>
Untrack ==
    \E wallet \in ButtonWallets :
        /\ w_last' = [op |-> "untrack", arg |-> wallet, before |-> WalletsOr(tracked_wallets)]
        /\ IF Contains(WalletsOr(tracked_wallets), WalletToRemove(UntrackPrefix \o wallet))
           THEN /\ tracked_wallets' =
                       List(RemoveFirst(tracked_wallets.items, WalletToRemove(UntrackPrefix \o wallet)))
                /\ w_reply' = "stopped"
           ELSE /\ w_reply' = "not_found"
                /\ UNCHANGED tracked_wallets
        /\ UNCHANGED <<awaiting_wallet_address, notWalletVars>>

InitWallets ==
    /\ FetchStart /\ ExtractIdle /\ MarketIdle /\ AlertStart
    /\ WalletIdle

NextWallets == TrackCommand \/ TrackButton \/ WalletInput \/ Untrack

SpecWallets == InitWallets /\ [][NextWallets]_vars

IsHexChar(c) ==
    c \in {"0", "1", "2", "3", "4", "5", "6", "7", "8", "9",
           "a", "b", "c", "d", "e", "f", "A", "B", "C", "D", "E", "F"}

\* 0x followed by 40 hexadecimal characters
PromptedFormat(s) ==
    /\ Len(s) = 42
    /\ StartsWith(s, ZeroX)
    /\ \A i \in 3..42 : IsHexChar(s[i])

(* C21: every address in tracked_wallets has the prompted format, 0x and 40 *)
(* hexadecimal characters, and a prompted input (or /track argument) that   *)
(* does not have the format leaves tracked_wallets as it was.               *)
C21_TrackedHaveFormat ==
    /\ \A i \in 1..Len(WalletsOr(tracked_wallets)) :
           PromptedFormat(WalletsOr(tracked_wallets)[i])
    /\ (w_last.op = "input" /\ ~PromptedFormat(Strip(w_last.arg)))
           => WalletsOr(tracked_wallets) = w_last.before

\* what does hold: the prompted input that fails the check of line 1149
\* leaves the list, and the awaiting flag, as they were
RejectedInputKeepsList ==
    (w_last.op = "input" /\ ~PassesCheck(Strip(w_last.arg))) =>
        /\ WalletsOr(tracked_wallets) = w_last.before
        /\ w_reply = "invalid"
        /\ awaiting_wallet_address = PyBool(TRUE)

\* the address the last handler gave to add_wallet
AddedWallet == IF w_last.op = "track" THEN w_last.arg[1] ELSE Strip(w_last.arg)

NoDuplicates(items) == \A i, j \in 1..Len(items) : items[i] = items[j] => i = j

(* C27: tracked_wallets never holds an address twice; add_wallet of a       *)
(* tracked address leaves the list as it was and answers "already           *)
(* tracking"; the Remove button of a tracked address leaves no occurrence  *)
(* of it in the list.                                                      *)
C27_NoDuplicateWallets ==
    /\ NoDuplicates(WalletsOr(tracked_wallets))
    /\ (w_reply \in {"now_tracking", "already_tracking"} /\ Contains(w_last.before, AddedWallet))
           => (WalletsOr(tracked_wallets) = w_last.before /\ w_reply = "already_tracking")
    /\ (w_last.op = "untrack" /\ Contains(w_last.before, w_last.arg))
           => ~Contains(WalletsOr(tracked_wallets), w_last.arg)

\* what does hold: no duplicates, and the Remove button of a tracked address
\* that does not contain "untrack_" removes it, and it alone
UntrackOfPlainAddress ==
    /\ NoDuplicates(WalletsOr(tracked_wallets))
    /\ (w_reply \in {"now_tracking", "already_tracking"} /\ Contains(w_last.before, AddedWallet))
           => (WalletsOr(tracked_wallets) = w_last.before /\ w_reply = "already_tracking")
    /\ (w_last.op = "untrack" /\ Contains(w_last.before, w_last.arg)
            /\ Replaced(w_last.arg, UntrackPrefix) = w_last.arg)
           => /\ ~Contains(WalletsOr(tracked_wallets), w_last.arg)
              /\ WalletsOr(tracked_wallets) = RemoveFirst(w_last.before, w_last.arg)
              /\ w_reply = "stopped"

----------------------------------------------------------------------------
(* The alert registry, call by call: handle_price_input, add_alert, the     *)
(* delete button and whole check_alerts sweeps, none interleaved with      *)
(* another.  An alert is [id, serial, type, coin, value, one_time]: value  *)
(* is its price or its threshold as float() gave it, one_time is "true",   *)
(* "false" or "absent".                                                    *)

MaxRegistered == 3  \* add_alert calls in a behaviour

\* a float: v in tenths, or not-a-number
Float(v) == [v |-> v, nan |-> FALSE]
NaN == [v |-> 0, nan |-> TRUE]

\* a <= b and a > b on floats: every comparison with nan is false
FloatLe(a, b) == ~a.nan /\ ~b.nan /\ a.v <= b.v
FloatGt(a, b) == ~a.nan /\ ~b.nan /\ a.v > b.v

NanText == <<"n", "a", "n">>

\* update.message.text of the messages a user sends as price and as threshold
PriceTexts(alert_type) ==
    IF alert_type = "price"
    THEN {<<"1", "0", "0">>, <<"0">>, <<"a", "b", "c">>, NanText}
    ELSE {<<"1", "0">>, <<"0">>, <<"1", "5", "0">>, <<"a", "b", "c">>, NanText}

\* float(text) of a message text: "nan" is a float literal
TextFloat(text) ==
    IF text = NanText
    THEN [exc |-> "", f |-> NaN]
    ELSE [exc |-> PyFloat(Str(text)).exc, f |-> Float(PyFloat(Str(text)).v)]

\* what the conversation holds when a price is entered (price_alerts.py
\* 233, 244, 286, 314, 329): alert_type, alert_direction, alert_coin
\* user 1 sets alerts of every kind, user 2 price alerts only
AlertRequests(user_id) ==
    {[alert_type |-> "price", direction |-> "above", coin |-> BTC]} \cup
    IF user_id = 1
    THEN {[alert_type |-> "price", direction |-> "below", coin |-> BTC],
          [alert_type |-> "liquidation", direction |-> "", coin |-> BTC]}
    ELSE {}

\* price_alerts.py 361-366, 391-397: the alert_data of the handler
AlertData(req, f, n) ==
    [id |-> <<>>, serial |-> n,
     type |-> IF req.alert_type = "liquidation" THEN "LIQUIDATION_WARN"
              ELSE IF req.direction = "above" THEN "PRICE_ABOVE" ELSE "PRICE_BELOW",
     coin |-> req.coin, value |-> f, one_time |-> "false"]

\* price_alerts.py 357, 387: the range check
OutOfRange(req, f) ==
    IF req.alert_type = "price"
    THEN FloatLe(f, Float(0))
    ELSE FloatLe(f, Float(0)) \/ FloatGt(f, Float(1000))

\* price_alerts.py 343-421: handle_price_input; the registry after it, the
\* conversation state it returns and its reply
PriceInput(reg, user_id, req, text, n) ==
    IF TextFloat(Strip(text)).exc # ""
    THEN [reg |-> reg, ret |-> "ENTERING_PRICE", reply |-> "not a number"]
    ELSE IF OutOfRange(req, TextFloat(Strip(text)).f)
    THEN [reg |-> reg, ret |-> "ENTERING_PRICE", reply |-> "out of range"]
    ELSE [reg |-> Added(reg, user_id, AlertData(req, TextFloat(Strip(text)).f, n)),
          ret |-> "END", reply |-> "created"]

HandlePriceInput ==
    /\ serial < MaxRegistered
    /\ \E user_id \in Users : \E req \in AlertRequests(user_id) :
       \E text \in PriceTexts(req.alert_type) :
         /\ alerts' = PriceInput(alerts, user_id, req, text, serial + 1).reg
         /\ serial' = IF PriceInput(alerts, user_id, req, text, serial + 1).ret = "END"
                      THEN serial + 1 ELSE serial
         /\ a_last' = [op |-> "input", user |-> user_id, req |-> req, text |-> text,
                       before |-> alerts,
                       ret |-> PriceInput(alerts, user_id, req, text, serial + 1).ret,
                       reply |-> PriceInput(alerts, user_id, req, text, serial + 1).reply]
    /\ UNCHANGED notRegistryVars

\* alert_data of add_alert calls that are not the handler's: one_time true or not given
OneTimeData(n) ==
    {[id |-> <<>>, serial |-> n, type |-> "PRICE_ABOVE", coin |-> BTC,
      value |-> Float(1000), one_time |-> o] : o \in {"true", "absent"}}

\* price_alerts.py 35-45: add_alert called with a one-time alert
AddOneTime ==
    /\ serial < MaxRegistered
    /\ \E user_id \in {1}, alert_data \in OneTimeData(serial + 1) :
         /\ alerts' = Added(alerts, user_id, alert_data)
         /\ a_last' = [op |-> "add", user |-> user_id, before |-> alerts]
    /\ serial' = serial + 1
    /\ UNCHANGED notRegistryVars

\* price_alerts.py 47-52: remove_alert; the registry after it and what it returns
RemoveAlertCall(reg, user_id, alert_id) ==
    IF HasUser(reg, user_id)
    THEN [reg |-> Removed(reg, user_id, alert_id), ret |-> TRUE]
    ELSE [reg |-> reg, ret |-> FALSE]

\* the ids of the Delete buttons a user may press (price_alerts.py 191-194),
\* those of a list shown earlier included
ButtonIds(user_id) == {<<user_id, n>> : n \in 0..(MaxRegistered - 1)}

\* price_alerts.py 200-209: the Delete button
DeleteAlert ==
    /\ \E user_id \in Users : \E alert_id \in ButtonIds(user_id) :
         /\ alerts' = RemoveAlertCall(alerts, user_id, alert_id).reg
         /\ a_last' = [op |-> "delete", user |-> user_id, id |-> alert_id,
                       before |-> alerts,
                       ret |-> RemoveAlertCall(alerts, user_id, alert_id).ret,
                       reply |-> IF RemoveAlertCall(alerts, user_id, alert_id).ret
                                 THEN "deleted" ELSE "error"]
    /\ UNCHANGED <<serial, notRegistryVars>>

\* the market data of a sweep: what get_market_data returned
SweepMarkets ==
    {Dict(<<>>)} \cup
    {Dict(<<<<BTC, p>>>>) : p \in {Num(900), Num(1000), Num(1100), Num(0), NotANumber}}

\* what get_account_info returns for the wallet of a liquidation alert: an
\* account whose assetPositions hold one BTC position; a position is
\* [coin, liquidationPx]
SweepAccounts == {List(<<[coin |-> BTC, liquidationPx |-> Num(950)]>>)}

\* the users send_message fails for
SendFailures == {{}, {1}}

\* price_alerts.py 100-102: abs((liquidation_price / current_price - 1) * 100)
\* <= threshold, for a current price above 0
WithinThreshold(liquidation_price, current_price, threshold) ==
    /\ ~threshold.nan
    /\ Abs(liquidation_price - current_price) * 1000 <= threshold.v * current_price

RECURSIVE LiqScan(_, _, _, _)
\* price_alerts.py 92-109: the positions of the account, for a coin that
\* the market data prices at current_price
LiqScan(positions, alert, current_price, hit) ==
    IF positions = <<>> THEN [exc |-> "", hit |-> hit]
    ELSE IF Head(positions).coin # alert.coin
    THEN LiqScan(Tail(positions), alert, current_price, hit)
    ELSE IF PyFloat(Head(positions).liquidationPx).exc # ""
    THEN [exc |-> PyFloat(Head(positions).liquidationPx).exc, hit |-> FALSE]
    ELSE IF current_price = 0
    THEN [exc |-> "ZeroDivisionError", hit |-> FALSE]
    ELSE LiqScan(Tail(positions), alert, current_price,
                 hit \/ WithinThreshold(PyFloat(Head(positions).liquidationPx).v,
                                        current_price, alert.value))

\* price_alerts.py 69-109: one alert; cur is float(market_data[coin]) when
\* the coin is in the market data
Evaluated(alert, in_market, cur, acct) ==
    IF in_market /\ cur.exc # "" THEN [exc |-> cur.exc, hit |-> FALSE]
    ELSE IF alert.type = "PRICE_ABOVE"
    THEN [exc |-> "", hit |-> in_market /\ FloatLe(alert.value, Float(cur.v))]
    ELSE IF alert.type = "PRICE_BELOW"
    THEN [exc |-> "", hit |-> in_market /\ FloatLe(Float(cur.v), alert.value)]
    ELSE IF ~in_market \/ acct = None THEN [exc |-> "", hit |-> FALSE]
    ELSE LiqScan(acct.items, alert, cur.v, FALSE)

EvalAlert(alert, market_data, acct) ==
    Evaluated(alert, HasKey(market_data, alert.coin),
              PyFloat(Get(market_data, alert.coin, None)), acct)

RECURSIVE EvalList(_, _, _, _)
\* price_alerts.py 68-112: the alerts of one user; triggered_alerts, or the
\* exception that ended the loop
EvalList(list, market_data, acct, triggered) ==
    IF list = <<>> THEN [exc |-> "", triggered |-> triggered]
    ELSE IF EvalAlert(Head(list), market_data, acct).exc # ""
    THEN [exc |-> EvalAlert(Head(list), market_data, acct).exc, triggered |-> triggered]
    ELSE EvalList(Tail(list), market_data, acct,
                  IF EvalAlert(Head(list), market_data, acct).hit
                  THEN Append(triggered, Head(list)) ELSE triggered)

RECURSIVE NotifyAll(_, _, _, _, _)
\* price_alerts.py 115-125: the triggered alerts of one user are sent, the
\* one-time ones removed; sent collects <<user, serial>> of each message
NotifyAll(reg, user_id, triggered, failing, sent) ==
    IF triggered = <<>> THEN [reg |-> reg, sent |-> sent, exc |-> ""]
    ELSE IF user_id \in failing THEN [reg |-> reg, sent |-> sent, exc |-> "send failed"]
    ELSE NotifyAll(IF Head(triggered).one_time # "false"
                   THEN Removed(reg, user_id, Head(triggered).id) ELSE reg,
                   user_id, Tail(triggered), failing,
                   Append(sent, <<user_id, Head(triggered).serial>>))

\* one user of the sweep, once its alerts are evaluated
Notified(reg, k, e, failing, sent) ==
    IF e.exc # "" THEN [reg |-> reg, sent |-> sent, exc |-> e.exc]
    ELSE NotifyAll(reg, reg[k][1], e.triggered, failing, sent)

RECURSIVE SweepFrom(_, _, _, _, _, _)
\* price_alerts.py 60-128: the users from the k-th key of the registry on;
\* an exception ends the sweep in the except clause (127-128)
SweepFrom(reg, k, market_data, acct, failing, r) ==
    IF r.exc # "" \/ k > Len(reg) THEN r
    ELSE SweepFrom(r.reg, k + 1, market_data, acct, failing,
                   Notified(r.reg, k, EvalList(r.reg[k][2], market_data, acct, <<>>),
                            failing, r.sent))

\* price_alerts.py 58-128: check_alerts
check_alerts(reg, market_data, acct, failing) ==
    SweepFrom(reg, 1, market_data, acct, failing, [reg |-> reg, sent |-> <<>>, exc |-> ""])

Sweep ==
    /\ \E market_data \in SweepMarkets, acct \in SweepAccounts, failing \in SendFailures :
         /\ alerts' = check_alerts(alerts, market_data, acct, failing).reg
         /\ a_last' = [op |-> "sweep", market_data |-> market_data, acct |-> acct,
                       failing |-> failing, before |-> alerts,
                       sent |-> check_alerts(alerts, market_data, acct, failing).sent,
                       error |-> check_alerts(alerts, market_data, acct, failing).exc]
    /\ UNCHANGED <<serial, notRegistryVars>>

InitRegistry == InitAlerts

NextRegistry == HandlePriceInput \/ AddOneTime \/ DeleteAlert \/ Sweep

SpecRegistry == InitRegistry /\ [][NextRegistry]_vars

\* the text is a number within the range asked for
ValidText(req, text) ==
    /\ PyFloat(Str(text)).exc = ""
    /\ PyFloat(Str(text)).v > 0
    /\ req.alert_type = "liquidation" => PyFloat(Str(text)).v <= 1000

\* the alert has a price above 0, or a threshold above 0 and at most 100
ValidAlert(alert) ==
    /\ ~alert.value.nan
    /\ alert.value.v > 0
    /\ alert.type = "LIQUIDATION_WARN" => alert.value.v <= 1000

(* C22: every alert handle_price_input put in the registry has a price > 0  *)
(* or a threshold in (0, 100]; a text that is not a number or is out of    *)
(* range adds no alert, leaves the registry as it was and keeps the        *)
(* conversation in ENTERING_PRICE.                                         *)
C22_InputValidated ==
    /\ \A k \in 1..Len(alerts) : \A j \in 1..Len(alerts[k][2]) :
           alerts[k][2][j].one_time = "false" => ValidAlert(alerts[k][2][j])
    /\ (a_last.op = "input" /\ ~ValidText(a_last.req, Strip(a_last.text)))
           => (alerts = a_last.before /\ a_last.ret = "ENTERING_PRICE")

\* what does hold: the claim for every text but nan
ValidatedButNan ==
    /\ \A k \in 1..Len(alerts) : \A j \in 1..Len(alerts[k][2]) :
           (alerts[k][2][j].one_time = "false" /\ ~alerts[k][2][j].value.nan)
               => ValidAlert(alerts[k][2][j])
    /\ (a_last.op = "input" /\ Strip(a_last.text) # NanText
            /\ ~ValidText(a_last.req, Strip(a_last.text)))
           => (alerts = a_last.before /\ a_last.ret = "ENTERING_PRICE")
    /\ (a_last.op = "input" /\ ValidText(a_last.req, Strip(a_last.text)))
           => (alerts # a_last.before /\ a_last.ret = "END")

\* the list of a user in a registry, empty for a user it does not hold
ListOr(reg, user_id) == IF HasUser(reg, user_id) THEN ListOf(reg, user_id) ELSE <<>>

Occurrences(seq, x) == Cardinality({i \in 1..Len(seq) : seq[i] = x})

\* the claim's condition of a price alert: the coin is priced, and the
\* price is on the side of the alert price it watches
PriceCondition(alert, market_data) ==
    /\ HasKey(market_data, alert.coin)
    /\ PyFloat(Get(market_data, alert.coin, None)).exc = ""
    /\ ~alert.value.nan
    /\ IF alert.type = "PRICE_ABOVE"
       THEN PyFloat(Get(market_data, alert.coin, None)).v >= alert.value.v
       ELSE PyFloat(Get(market_data, alert.coin, None)).v <= alert.value.v

IsPriceAlert(alert) == alert.type \in {"PRICE_ABOVE", "PRICE_BELOW"}

(* C23: in a sweep whose messages are all delivered, a price alert is       *)
(* notified to its owner exactly once when its coin is in the market data  *)
(* and the current price is >= (PRICE_ABOVE) or <= (PRICE_BELOW) the alert *)
(* price, and not at all otherwise.                                        *)
C23_PriceAlertsTrigger ==
    (a_last.op = "sweep" /\ a_last.failing = {}) =>
        \A k \in 1..Len(a_last.before) : \A j \in 1..Len(a_last.before[k][2]) :
            IsPriceAlert(a_last.before[k][2][j]) =>
                Occurrences(a_last.sent, <<a_last.before[k][1], a_last.before[k][2][j].serial>>)
                    = IF PriceCondition(a_last.before[k][2][j], a_last.market_data)
                      THEN 1 ELSE 0

\* what does hold: the same for the sweeps that no exception ended
PriceAlertsTriggerUnlessAborted ==
    (a_last.op = "sweep" /\ a_last.error = "") =>
        \A k \in 1..Len(a_last.before) : \A j \in 1..Len(a_last.before[k][2]) :
            IsPriceAlert(a_last.before[k][2][j]) =>
                Occurrences(a_last.sent, <<a_last.before[k][1], a_last.before[k][2][j].serial>>)
                    = IF PriceCondition(a_last.before[k][2][j], a_last.market_data)
                      THEN 1 ELSE 0

WasNotified(k, j) ==
    Occurrences(a_last.sent, <<a_last.before[k][1], a_last.before[k][2][j].serial>>) > 0

(* C24: in a sweep whose messages are all delivered, a notified alert is    *)
(* gone from the registry after the sweep exactly when its one_time flag   *)
(* is true or absent; an alert with one_time false stays, and is notified  *)
(* in every sweep in which its condition holds.                            *)
C24_OneTimeRemoval ==
    (a_last.op = "sweep" /\ a_last.failing = {}) =>
        \A k \in 1..Len(a_last.before) : \A j \in 1..Len(a_last.before[k][2]) :
            /\ WasNotified(k, j) =>
                   (a_last.before[k][2][j].serial \notin SerialsIn(alerts)
                        <=> a_last.before[k][2][j].one_time # "false")
            /\ a_last.before[k][2][j].one_time = "false" =>
                   /\ a_last.before[k][2][j].serial \in SerialsIn(alerts)
                   /\ (IsPriceAlert(a_last.before[k][2][j])
                          /\ PriceCondition(a_last.before[k][2][j], a_last.market_data))
                         => WasNotified(k, j)

\* what does hold: the same for sweeps that no exception ended, over a
\* registry in which no two alerts of a user share an id
OneTimeRemovalUniqueIds ==
    (a_last.op = "sweep" /\ a_last.error = ""
        /\ \A k \in 1..Len(a_last.before) : UniqueIds(a_last.before[k][2])) =>
        \A k \in 1..Len(a_last.before) : \A j \in 1..Len(a_last.before[k][2]) :
            /\ WasNotified(k, j) =>
                   (a_last.before[k][2][j].serial \notin SerialsIn(alerts)
                        <=> a_last.before[k][2][j].one_time # "false")
            /\ a_last.before[k][2][j].one_time = "false" =>
                   /\ a_last.before[k][2][j].serial \in SerialsIn(alerts)
                   /\ (IsPriceAlert(a_last.before[k][2][j])
                          /\ PriceCondition(a_last.before[k][2][j], a_last.market_data))
                         => WasNotified(k, j)

\* the alerts of the k-th user evaluate without a failure, and its messages
\* are delivered
UserUnaffected(k) ==
    /\ EvalList(a_last.before[k][2], a_last.market_data, a_last.acct, <<>>).exc = ""
    /\ a_last.before[k][1] \notin a_last.failing

(* C25: a failure in the evaluation of an alert or in sending the message   *)
(* of a user does not keep the alerts of the other users from being        *)
(* evaluated and notified in the same sweep.                               *)
C25_FailureIsolation ==
    a_last.op = "sweep" =>
        \A k \in 1..Len(a_last.before) : \A j \in 1..Len(a_last.before[k][2]) :
            (UserUnaffected(k)
                /\ EvalAlert(a_last.before[k][2][j], a_last.market_data, a_last.acct).hit)
               => WasNotified(k, j)

(* C26: remove_alert(user, id) removes all and only the alerts of the user  *)
(* with that id, keeps the order of the others, leaves the lists of the    *)
(* other users as they were, and returns True exactly when it removed an   *)
(* alert.                                                                  *)
C26_RemoveAlertFrame ==
    a_last.op = "delete" =>
        /\ ListOr(alerts, a_last.user) =
               SelectSeq(ListOr(a_last.before, a_last.user), LAMBDA a : a.id # a_last.id)
        /\ \A u \in Users \ {a_last.user} : ListOr(alerts, u) = ListOr(a_last.before, u)
        /\ a_last.ret <=> ListOr(alerts, a_last.user) # ListOr(a_last.before, a_last.user)

\* what does hold: the effect on the registry, and True for every user the
\* registry holds
RemoveAlertEffect ==
    a_last.op = "delete" =>
        /\ ListOr(alerts, a_last.user) =
               SelectSeq(ListOr(a_last.before, a_last.user), LAMBDA a : a.id # a_last.id)
        /\ \A u \in Users \ {a_last.user} : ListOr(alerts, u) = ListOr(a_last.before, u)
        /\ a_last.ret <=> HasUser(a_last.before, a_last.user)
        /\ a_last.reply = IF a_last.ret THEN "deleted" ELSE "error"

(* C28: utils.extract_position_data and the inline extraction of the        *)
(* view_positions handler yield the same coin, size, entry price and       *)
(* leverage for every position record both extract values from.            *)
C28_ExtractionsAgree ==
    (u_out.status = "record" /\ i_loc.computed) =>
        /\ u_out.coin = i_loc.coin
        /\ u_out.size = i_loc.size
        /\ u_out.entry_price = i_loc.entry_price
        /\ u_out.leverage = i_loc.leverage

\* the record is shaped like the sample data: no top-level coin, a coin
\* inside position, the leverage a mapping
SampleShaped(rec) ==
    /\ ~HasKey(rec, "coin")
    /\ IsDict(Get(rec, "position", None))
    /\ HasKey(Get(rec, "position", None), "coin")
    /\ IsDict(Get(Get(rec, "position", None), "leverage", None))

\* what does hold: the two paths agree on the size and the entry price
\* wherever neither is given as a mapping
ScalarSizeAndEntryAgree ==
    (u_out.status = "record" /\ i_loc.computed
        /\ ~IsDict(Get(Get(raw, "position", Dict(<<>>)), "szi", None))
        /\ ~IsDict(Get(Get(raw, "position", Dict(<<>>)), "entryPx", None)))
       => (u_out.size = i_loc.size /\ u_out.entry_price = i_loc.entry_price)
====
